---- MODULE Spec2Model ----
(***************************************************************************)
(* rfcbot: Final Comment Period tracking (src/src/github/nag.rs).          *)
(*                                                                         *)
(* update_nags handles one ingested issue comment: it parses a command,    *)
(* processes it against the store, and then runs evaluate_nags, the sweep  *)
(* over every pending proposal.  One call of update_nags is two steps that *)
(* pc forces to follow each other, the command and then the sweep, so that *)
(* a property of "a sweep" can speak of the state the sweep starts from.   *)
(* Nothing else happens in between.                                        *)
(*                                                                         *)
(* Text (comment bodies) is a sequence of lines, a line a sequence of      *)
(* one-character strings; a fixed sentence of a template is one symbol.    *)
(***************************************************************************)
EXTENDS Integers, Sequences, FiniteSets, TLC

\* ------------------------------------------------------------ universe

\* Option::None of a nullable column holding a number (timestamp, comment id).
NULL == -1

\* Bounds of the model.
MaxTime == 11
MaxId == 4

\* Duration::days(10) of the closing pass.
FcpDays == 10

Issues == {1}

\* githubuser: the users the store knows, by login; NoUser: a failed lookup.
githubuser == {"a", "b", "c"}
NoUser == "?"

\* The order of logins (sort_by login, order(githubuser::login)).
LoginOrder == <<"a", "b", "c">>

\* Concern names, and their order (order(fcp_concern::name)).
\* MarkerName: a name that reads as the rest of a ticked checkbox line,
\* "[x] @a"; it sorts before "n".
MarkerName == <<"[", "x", "]", " ", "@", "a">>
NameOrder == <<MarkerName, <<"n">> >>
ConcernNames == {<<"n">>}

Dispositions == {"merge", "close"}

\* Remote calls of the repository client, each of which may fail.
RemoteOps == {"new_comment", "edit_comment", "add_label"}

\* What fails during one step of the handler: nothing, or one kind of remote
\* call on one issue.  A call that failed shows in the record of the calls.
Failures == {{}} \cup {{<<op, i>>} : op \in RemoteOps, i \in Issues}

\* The remote calls the processing of a command may make.
RemoteOpsOf(kind) ==
    IF kind = "FcpPropose" THEN {"new_comment", "edit_comment"}
    ELSE IF kind = "FcpCancel" THEN {"new_comment"}
    ELSE {}

VARIABLES
    issue,                \* issue table: [open]
    post_comments,        \* CONFIG.post_comments
    now,                  \* UTC::now(), in days
    fcp_proposal,         \* table fcp_proposal: a set of rows
    fcp_review_request,   \* table fcp_review_request
    fcp_concern,          \* table fcp_concern
    rfc_feedback_request, \* table rfc_feedback_request
    issuecomment,         \* table issuecomment: the stored bodies of the bot's comments
    gh_comment,           \* the platform's bodies of the bot's tracking comments
    gh_labels,            \* issues carrying the final-comment-period label
    next_id,              \* the next comment id the platform assigns
    next_proposal,        \* the serial of fcp_proposal.id
    pc,                   \* "sweep": update_nags is about to call evaluate_nags
    comment,              \* the comment update_nags is handling
    out                   \* the remote calls made by the handler's last step

vars == <<issue, post_comments, now, fcp_proposal, fcp_review_request, fcp_concern,
          rfc_feedback_request, issuecomment, gh_comment, gh_labels, next_id,
          next_proposal, pc, comment, out>>

\* ---------------------------------------------------------------- text

Login(u) == <<u>>

StartsWith(s, p) == Len(s) >= Len(p) /\ SubSeq(s, 1, Len(p)) = p

\* str::trim_left_matches(pattern): strips the prefix as often as it repeats.
RECURSIVE TrimLeftMatches(_, _)
TrimLeftMatches(s, p) ==
    IF p # <<>> /\ StartsWith(s, p)
    THEN TrimLeftMatches(SubSeq(s, Len(p) + 1, Len(s)), p)
    ELSE s

RECURSIVE SkipSpaces(_)
SkipSpaces(s) == IF s # <<>> /\ Head(s) = " " THEN SkipSpaces(Tail(s)) ELSE s

RECURSIVE TakeToken(_)
TakeToken(s) == IF s = <<>> \/ Head(s) = " " THEN <<>> ELSE <<Head(s)>> \o TakeToken(Tail(s))

\* split_whitespace().next(): the first token, <<>> standing for None.
FirstToken(s) == TakeToken(SkipSpaces(s))

\* ------------------------------------------------------------ renderer

add_comment_url(i, comment_id) ==
    <<"https://github.com/", "repo", "/issues/", ToString(i), "#issuecomment-",
      ToString(comment_id)>>

CheckedBox == <<"*", " ", "[", "x", "]", " ", "@">>
UncheckedBox == <<"*", " ", "[", " ", "]", " ", "@">>

ReviewLine(r) == (IF r.reviewed THEN CheckedBox ELSE UncheckedBox) \o Login(r.user)

ConcernLine(i, c) ==
    IF c.fk_resolved_comment # NULL
    THEN <<"*", " ", "~", "~">> \o c.name \o <<"~", "~", " resolved by ">>
         \o add_comment_url(i, c.fk_resolved_comment)
    ELSE <<"*", " ">> \o c.name \o <<" ", "(">>
         \o add_comment_url(i, c.fk_initiating_comment) \o <<")">>

\* RfcBotComment::format, CommentType::FcpProposed: reviewers and concerns are
\* sequences, in the order the caller lists them.
format_FcpProposed(i, initiator, disposition, reviewers, concerns) ==
    << <<"Team member @">> \o Login(initiator) \o <<" has proposed to ", disposition,
         " this. The next step is review by the rest of the tagged teams:">>,
       <<>> >>
    \o [k \in 1..Len(reviewers) |-> ReviewLine(reviewers[k])]
    \o (IF concerns = <<>>
        THEN << <<>>, <<"No concerns currently listed.">> >>
        ELSE << <<>>, <<"Concerns:">>, <<>> >>)
    \o [k \in 1..Len(concerns) |-> ConcernLine(i, concerns[k])]
    \o << <<>>, <<"Once these reviewers reach consensus, this will enter its final comment period.">>,
          <<>>, <<"See this document for info about what commands tagged team members can give me.">> >>

format_FcpProposalCancelled(initiator) ==
    << <<"@">> \o Login(initiator) \o <<" proposal cancelled.">> >>

format_FcpAllReviewedNoConcerns(i, author, status_comment_id, added_label) ==
    << <<"This is now entering its final comment period, as per the review above ">>
         \o add_comment_url(i, status_comment_id) \o <<" .">> >>
    \o (IF added_label THEN <<>>
        ELSE << <<>>, <<"psst @">> \o Login(author)
                  \o <<", I was not able to add the final-comment-period label, please do so.">> >>)

format_FcpWeekPassed == << <<"The final comment period is now complete.">> >>

\* ---------------------------------------------------------------- store

\* The mutable world a handler step threads through its calls: the tables,
\* the platform, and the remote calls made so far.
World ==
    [fcp_proposal |-> fcp_proposal, fcp_review_request |-> fcp_review_request,
     fcp_concern |-> fcp_concern, rfc_feedback_request |-> rfc_feedback_request,
     issuecomment |-> issuecomment, gh_comment |-> gh_comment, gh_labels |-> gh_labels,
     next_id |-> next_id, next_proposal |-> next_proposal, out |-> <<>>]

\* A set of proposal rows as a sequence, ascending by id.
RECURSIVE ById(_)
ById(rows) ==
    IF rows = {} THEN <<>>
    ELSE LET first == CHOOSE r \in rows : \A q \in rows : r.id <= q.id
         IN <<first>> \o ById(rows \ {first})

IndexOf(seq, x) == CHOOSE k \in 1..Len(seq) : seq[k] = x

\* diesel::update(table.find(row.id)).set(&row): the row of that id, if it is
\* still there, takes every column of the value written.
UpdateById(table, row) == {IF r.id = row.id THEN row ELSE r : r \in table}

\* subteam_members: the members of the teams whose label the issue carries.
\* Faulty variant: every user of the store.
subteam_members_everyone(i) == githubuser

\* teams and memberships: the team of each label and its members.
TeamLabels == {"T-lang", "T-libs"}
memberships == ("T-lang" :> {"a", "b"}) @@ ("T-libs" :> {"c"})

subteam_members(i) == UNION {memberships[label] : label \in issue[i].labels \cap TeamLabels}

\* githubuser::table.filter(login.eq(username)).first()
UserByLogin(username) ==
    IF \E u \in githubuser : Login(u) = username
    THEN CHOOSE u \in githubuser : Login(u) = username
    ELSE NoUser

\* list_review_requests: the proposal's review requests with their reviewers,
\* sorted by login.
list_review_requests(st, proposal_id) ==
    LET rows == {r \in st.fcp_review_request : r.fk_proposal = proposal_id}
        users == SelectSeq(LoginOrder, LAMBDA u : \E r \in rows : r.fk_reviewer = u)
    IN [k \in 1..Len(users) |->
          [user |-> users[k],
           reviewed |-> (CHOOSE r \in rows : r.fk_reviewer = users[k]).reviewed]]

\* Vec::sort_by(|a, b| a.0.login.cmp(&b.0.login)): a stable sort; each element
\* is put behind those already sorted whose login is not greater.
\* Faulty variant: the vector is left in the order it was loaded.
sort_by_login_unsorted(reviews) == reviews

RECURSIVE sort_by_login(_)
sort_by_login(reviews) ==
    IF reviews = <<>> THEN <<>>
    ELSE LET r == reviews[Len(reviews)]
             sorted == sort_by_login(SubSeq(reviews, 1, Len(reviews) - 1))
             key(x) == IndexOf(LoginOrder, x.user)
         IN SelectSeq(sorted, LAMBDA x : key(x) <= key(r)) \o <<r>>
            \o SelectSeq(sorted, LAMBDA x : key(x) > key(r))

\* list_review_requests, the rows of the proposal loaded in the given order
\* (the query has no ORDER BY).
list_review_requests_loaded(loaded) ==
    sort_by_login([k \in 1..Len(loaded) |->
                     [user |-> loaded[k].fk_reviewer, reviewed |-> loaded[k].reviewed]])

\* list_concerns_with_authors: the proposal's concerns, ordered by name.
\* Faulty variant: the query finds no concern.
list_concerns_forgotten(st, proposal_id) == <<>>

ConcernKey(c) == IndexOf(NameOrder, c.name) * (MaxId + 2) + c.fk_initiating_comment

RECURSIVE ByName(_)
ByName(rows) ==
    IF rows = {} THEN <<>>
    ELSE LET first == CHOOSE r \in rows : \A q \in rows : ConcernKey(r) <= ConcernKey(q)
         IN <<first>> \o ByName(rows \ {first})

list_concerns_with_authors(st, proposal_id) ==
    ByName({c \in st.fcp_concern : c.fk_proposal = proposal_id})

\* RfcBotComment::post.  keep: whether the new comment's id and body are read
\* again (the tracking comment); a notification's are not, and are not kept.
post(st, i, body, existing_comment, fails, keep) ==
    IF ~post_comments \/ ~issue[i].open
    THEN [ok |-> FALSE, id |-> NULL, st |-> st]
    ELSE IF existing_comment # NULL
    THEN LET ok == <<"edit_comment", i>> \notin fails
             call == [op |-> "edit_comment", issue |-> i, id |-> existing_comment,
                      body |-> body, ok |-> ok]
         IN [ok |-> ok, id |-> existing_comment,
             st |-> [st EXCEPT !.out = Append(@, call),
                               !.gh_comment = IF ok /\ existing_comment \in DOMAIN @
                                              THEN [@ EXCEPT ![existing_comment] = body]
                                              ELSE @]]
    ELSE LET ok == <<"new_comment", i>> \notin fails
             call == [op |-> "new_comment", issue |-> i, id |-> NULL,
                      body |-> body, ok |-> ok]
         IN [ok |-> ok, id |-> IF ok THEN st.next_id ELSE NULL,
             st |-> [st EXCEPT !.out = Append(@, call),
                               !.next_id = IF ok /\ keep THEN @ + 1 ELSE @,
                               !.gh_comment = IF ok /\ keep
                                              THEN @ @@ (st.next_id :> body) ELSE @]]

\* Faulty variants of cancel_fcp: the comment is posted, no row is deleted;
\* the rows are deleted only if the comment is posted.
cancel_fcp_keeps_rows(st, author, i, existing, fails) ==
    post(st, i, format_FcpProposalCancelled(author), NULL, fails, FALSE).st

cancel_fcp_undone(st, author, i, existing, fails) ==
    LET posted == post(st, i, format_FcpProposalCancelled(author), NULL, fails, FALSE)
    IN IF ~posted.ok THEN posted.st
       ELSE [posted.st EXCEPT
               !.fcp_proposal = {p \in @ : p.id # existing.id},
               !.fcp_review_request = {r \in @ : r.fk_proposal # existing.id},
               !.fcp_concern = {c \in @ : c.fk_proposal # existing.id}]

\* cancel_fcp: the proposal is deleted, and ON DELETE CASCADE deletes its
\* review requests and concerns; the result of the comment's post is dropped.
cancel_fcp(st, author, i, existing, fails) ==
    LET deleted == [st EXCEPT
            !.fcp_proposal = {p \in @ : p.id # existing.id},
            !.fcp_review_request = {r \in @ : r.fk_proposal # existing.id},
            !.fcp_concern = {c \in @ : c.fk_proposal # existing.id}]
    IN post(deleted, i, format_FcpProposalCancelled(author), NULL, fails, FALSE).st

\* ------------------------------------------------ review status from text

\* The user names of the checked lines of a status comment, in line order
\* (the filter_map of update_proposal_review_status).
BoxPrefix == <<"*", " ", "[">>

\* Faulty variant of CheckedName: the test of the box is inverted.
CheckedName_inverted(line) ==
    LET l == TrimLeftMatches(line, BoxPrefix)
        reviewed == l # <<>> /\ Head(l) = " "
        remaining == TrimLeftMatches(TrimLeftMatches(l, <<"x", "]", " ", "@">>),
                                     <<" ", "]", " ", "@">>)
        username == FirstToken(remaining)
    IN IF StartsWith(line, BoxPrefix) /\ username # <<>> /\ reviewed
       THEN <<username>> ELSE <<>>

CheckedName(line) ==
    LET l == TrimLeftMatches(line, BoxPrefix)
        reviewed == l # <<>> /\ Head(l) = "x"
        remaining == TrimLeftMatches(TrimLeftMatches(l, <<"x", "]", " ", "@">>),
                                     <<" ", "]", " ", "@">>)
        username == FirstToken(remaining)
    IN IF StartsWith(line, BoxPrefix) /\ username # <<>> /\ reviewed
       THEN <<username>> ELSE <<>>

RECURSIVE ReviewedNames(_)
ReviewedNames(body) ==
    IF body = <<>> THEN <<>> ELSE CheckedName(Head(body)) \o ReviewedNames(Tail(body))

\* The for loop of update_proposal_review_status: each name's user and review
\* request are looked up and the request is marked; the first failed lookup
\* ends the loop with an error, what was marked before it stays marked.
RECURSIVE MarkReviewed(_, _, _)
MarkReviewed(st, proposal_id, names) ==
    IF names = <<>> THEN [ok |-> TRUE, st |-> st]
    ELSE LET user == UserByLogin(Head(names))
             found == {r \in st.fcp_review_request :
                          r.fk_proposal = proposal_id /\ r.fk_reviewer = user}
         IN IF user = NoUser \/ found = {}
            THEN [ok |-> FALSE, st |-> st]
            ELSE MarkReviewed(
                    [st EXCEPT !.fcp_review_request =
                        {IF r \in found THEN [r EXCEPT !.reviewed = TRUE] ELSE r : r \in @}],
                    proposal_id, Tail(names))

\* Faulty variant of update_proposal_review_status: every review request takes
\* the state of its box, ticked or not.
update_proposal_review_status_mirrored(st, proposal_id) ==
    LET found == {p \in st.fcp_proposal : p.id = proposal_id}
        proposal == CHOOSE p \in found : TRUE
        names == ReviewedNames(st.issuecomment[proposal.fk_bot_tracking_comment])
    IN IF found = {} THEN [ok |-> FALSE, st |-> st]
       ELSE IF proposal.fcp_start # NULL \/ proposal.fcp_closed THEN [ok |-> TRUE, st |-> st]
       ELSE IF proposal.fk_bot_tracking_comment \notin DOMAIN st.issuecomment
       THEN [ok |-> FALSE, st |-> st]
       ELSE [ok |-> TRUE,
             st |-> [st EXCEPT !.fcp_review_request =
                        {IF r.fk_proposal = proposal_id
                         THEN [r EXCEPT !.reviewed =
                                  \E k \in 1..Len(names) : names[k] = Login(r.fk_reviewer)]
                         ELSE r : r \in @}]]

update_proposal_review_status(st, proposal_id) ==
    LET found == {p \in st.fcp_proposal : p.id = proposal_id}
        proposal == CHOOSE p \in found : TRUE
    IN IF found = {} THEN [ok |-> FALSE, st |-> st]
       ELSE IF proposal.fcp_start # NULL \/ proposal.fcp_closed THEN [ok |-> TRUE, st |-> st]
       ELSE IF proposal.fk_bot_tracking_comment \notin DOMAIN st.issuecomment
       THEN [ok |-> FALSE, st |-> st]
       ELSE MarkReviewed(st, proposal_id,
                ReviewedNames(st.issuecomment[proposal.fk_bot_tracking_comment]))

\* ------------------------------------------------------------- commands

\* Faulty variants of existing_proposal: the query finds no row; it finds
\* only a proposal whose FCP has not started.
existing_proposal_none(st, i) == {}

existing_proposal_pending(st, i) ==
    LET found == {p \in st.fcp_proposal : p.fk_issue = i /\ p.fcp_start = NULL}
    IN IF found = {} THEN {} ELSE {CHOOSE p \in found : \A q \in found : p.id <= q.id}

\* fcp_proposal.filter(fk_issue.eq(issue.id)).first().optional(): the rows
\* found, none or the first.
existing_proposal(st, i) ==
    LET found == {p \in st.fcp_proposal : p.fk_issue = i}
    IN IF found = {} THEN {} ELSE {ById(found)[1]}

\* A statement on the store that failed, in the record of the calls.
StoreError(op, i) == [op |-> op, issue |-> i, id |-> NULL, body |-> <<>>, ok |-> FALSE]

\* Faulty variant of NewFcpReviewRequest: the initiator is not taken to have
\* reviewed.
NewFcpReviewRequest_unreviewed(proposal_id, member, author) ==
    [fk_proposal |-> proposal_id, fk_reviewer |-> member, reviewed |-> FALSE]

\* NewFcpReviewRequest { fk_proposal, fk_reviewer, reviewed: member.id == author.id }
NewFcpReviewRequest(proposal_id, member, author) ==
    [fk_proposal |-> proposal_id, fk_reviewer |-> member, reviewed |-> (member = author)]

\* Faulty variant of the FcpPropose arm: when the base comment is not posted
\* the proposal and its review requests are inserted all the same, without a
\* tracking comment.
process_FcpPropose_unposted(st, author, i, comment_id, disp, fails) ==
    IF existing_proposal(st, i) # {} THEN [ok |-> TRUE, st |-> st]
    ELSE
    LET base == format_FcpProposed(i, author, disp, <<>>, <<>>)
        gh_comment_posted == post(st, i, base, NULL, fails, TRUE)
        proposal == [id |-> st.next_proposal, fk_issue |-> i, fk_initiator |-> author,
                     fk_initiating_comment |-> comment_id, disposition |-> disp,
                     fk_bot_tracking_comment |-> gh_comment_posted.id,
                     fcp_start |-> NULL, fcp_closed |-> FALSE]
        review_requests ==
            {NewFcpReviewRequest(proposal.id, member, author) : member \in subteam_members(i)}
    IN [ok |-> gh_comment_posted.ok,
        st |-> [gh_comment_posted.st EXCEPT
                   !.issuecomment = IF gh_comment_posted.ok
                                    THEN @ @@ (gh_comment_posted.id :> base) ELSE @,
                   !.fcp_proposal = @ \cup {proposal},
                   !.fcp_review_request = @ \cup review_requests,
                   !.next_proposal = @ + 1]]

\* The FcpPropose arm.  The proposal and its review requests are inserted by
\* two statements, outside any transaction: when the second fails the arm
\* returns the error and the proposal row stays.
process_FcpPropose(st, author, i, comment_id, disp, fails) ==
    IF existing_proposal(st, i) # {} THEN [ok |-> TRUE, st |-> st]
    ELSE
    LET base == format_FcpProposed(i, author, disp, <<>>, <<>>)
        gh_comment_posted == post(st, i, base, NULL, fails, TRUE)
    IN IF ~gh_comment_posted.ok THEN [ok |-> FALSE, st |-> gh_comment_posted.st]
       ELSE
       LET tracking == gh_comment_posted.id
           proposal == [id |-> st.next_proposal, fk_issue |-> i, fk_initiator |-> author,
                        fk_initiating_comment |-> comment_id, disposition |-> disp,
                        fk_bot_tracking_comment |-> tracking,
                        fcp_start |-> NULL, fcp_closed |-> FALSE]
           review_requests ==
               {NewFcpReviewRequest(proposal.id, member, author) :
                   member \in subteam_members(i)}
           proposed == [gh_comment_posted.st EXCEPT
               !.issuecomment = @ @@ (tracking :> base),
               !.fcp_proposal = @ \cup {proposal},
               !.next_proposal = @ + 1]
           inserted == [proposed EXCEPT !.fcp_review_request = @ \cup review_requests]
           new_gh_comment ==
               format_FcpProposed(i, author, disp,
                                  list_review_requests(inserted, proposal.id), <<>>)
           updated == post(inserted, i, new_gh_comment, tracking, fails, TRUE)
       IN IF <<"insert_review_requests", i>> \in fails
          THEN [ok |-> FALSE,
                st |-> [proposed EXCEPT
                           !.out = Append(@, StoreError("insert_review_requests", i))]]
          ELSE [ok |-> updated.ok, st |-> updated.st]

process_FcpCancel(st, author, i, fails) ==
    LET existing == existing_proposal(st, i)
    IN [ok |-> TRUE,
        st |-> IF existing = {} THEN st
               ELSE cancel_fcp(st, author, i, CHOOSE p \in existing : TRUE, fails)]

\* Faulty variant of the Reviewed arm: an author without a review request on
\* the proposal is given one.
process_Reviewed_inserting(st, author, i) ==
    LET existing == existing_proposal(st, i)
        proposal == CHOOSE p \in existing : TRUE
    IN [ok |-> TRUE,
        st |-> IF existing = {} THEN st
               ELSE [st EXCEPT !.fcp_review_request =
                        {r \in @ : ~(r.fk_proposal = proposal.id /\ r.fk_reviewer = author)}
                        \cup {[fk_proposal |-> proposal.id, fk_reviewer |-> author,
                                reviewed |-> TRUE]}]]

process_Reviewed(st, author, i) ==
    LET existing == existing_proposal(st, i)
        proposal == CHOOSE p \in existing : TRUE
    IN [ok |-> TRUE,
        st |-> IF existing = {} THEN st
               ELSE [st EXCEPT !.fcp_review_request =
                        {IF r.fk_proposal = proposal.id /\ r.fk_reviewer = author
                         THEN [r EXCEPT !.reviewed = TRUE] ELSE r : r \in @}]]

\* Faulty variant of the NewConcern arm: the concern is inserted without the
\* query for an existing one.
process_NewConcern_unchecked(st, author, i, comment_id, concern_name) ==
    LET existing == existing_proposal(st, i)
        proposal == CHOOSE p \in existing : TRUE
        new_concern == [fk_proposal |-> proposal.id, fk_initiator |-> author,
                        fk_resolved_comment |-> NULL, name |-> concern_name,
                        fk_initiating_comment |-> comment_id]
    IN [ok |-> TRUE,
        st |-> IF existing = {} THEN st
               ELSE [st EXCEPT !.fcp_concern = @ \cup {new_concern}]]

\* Faulty variant of the NewConcern arm: a new concern takes the proposal back
\* to its review.
process_NewConcern_restarting(st, author, i, comment_id, concern_name) ==
    LET existing == existing_proposal(st, i)
        proposal == CHOOSE p \in existing : TRUE
        existing_concern == {c \in st.fcp_concern :
                                c.fk_proposal = proposal.id /\ c.name = concern_name}
        new_concern == [fk_proposal |-> proposal.id, fk_initiator |-> author,
                        fk_resolved_comment |-> NULL, name |-> concern_name,
                        fk_initiating_comment |-> comment_id]
    IN [ok |-> TRUE,
        st |-> IF existing = {} \/ existing_concern # {} THEN st
               ELSE [st EXCEPT !.fcp_concern = @ \cup {new_concern},
                               !.fcp_proposal =
                                   UpdateById(@, [proposal EXCEPT !.fcp_start = NULL])]]

\* The NewConcern arm: the query for an existing concern filters by proposal
\* and name, whether or not the concern is resolved.
process_NewConcern(st, author, i, comment_id, concern_name) ==
    LET existing == existing_proposal(st, i)
        proposal == CHOOSE p \in existing : TRUE
        existing_concern == {c \in st.fcp_concern :
                                c.fk_proposal = proposal.id /\ c.name = concern_name}
        new_concern == [fk_proposal |-> proposal.id, fk_initiator |-> author,
                        fk_resolved_comment |-> NULL, name |-> concern_name,
                        fk_initiating_comment |-> comment_id]
    IN [ok |-> TRUE,
        st |-> IF existing = {} \/ existing_concern # {} THEN st
               ELSE [st EXCEPT !.fcp_concern = @ \cup {new_concern}]]

\* Faulty variant of the ResolveConcern arm: the concern of that name is
\* resolved whoever raised it.
process_ResolveConcern_by_anyone(st, author, i, comment_id, concern_name) ==
    LET existing == existing_proposal(st, i)
        proposal == CHOOSE p \in existing : TRUE
        existing_concern == {c \in st.fcp_concern :
                                c.fk_proposal = proposal.id /\ c.name = concern_name}
        concern == CHOOSE c \in existing_concern : TRUE
    IN [ok |-> TRUE,
        st |-> IF existing = {} \/ existing_concern = {} THEN st
               ELSE [st EXCEPT !.fcp_concern =
                        (@ \ {concern})
                        \cup {[concern EXCEPT !.fk_resolved_comment = comment_id]}]]

\* Faulty variant of the ResolveConcern arm: resolving a resolved concern
\* takes its resolving comment away.
process_ResolveConcern_toggling(st, author, i, comment_id, concern_name) ==
    LET existing == existing_proposal(st, i)
        proposal == CHOOSE p \in existing : TRUE
        existing_concern == {c \in st.fcp_concern :
                                /\ c.fk_proposal = proposal.id
                                /\ c.fk_initiator = author
                                /\ c.name = concern_name}
        concern == CHOOSE c \in existing_concern : TRUE
    IN [ok |-> TRUE,
        st |-> IF existing = {} \/ existing_concern = {} THEN st
               ELSE [st EXCEPT !.fcp_concern =
                        (@ \ {concern})
                        \cup {[concern EXCEPT !.fk_resolved_comment =
                                  IF @ = NULL THEN comment_id ELSE NULL]}]]

\* The ResolveConcern arm: the concern of that name the author raised takes
\* the comment as its resolving comment.
process_ResolveConcern(st, author, i, comment_id, concern_name) ==
    LET existing == existing_proposal(st, i)
        proposal == CHOOSE p \in existing : TRUE
        existing_concern == {c \in st.fcp_concern :
                                /\ c.fk_proposal = proposal.id
                                /\ c.fk_initiator = author
                                /\ c.name = concern_name}
        concern == ByName(existing_concern)[1]
    IN [ok |-> TRUE,
        st |-> IF existing = {} \/ existing_concern = {} THEN st
               ELSE [st EXCEPT !.fcp_concern =
                        (@ \ {concern})
                        \cup {[concern EXCEPT !.fk_resolved_comment = comment_id]}]]

\* Faulty variant of the FeedbackRequest arm: the request is inserted without
\* the query for an existing one.
process_FeedbackRequest_unchecked(st, author, i, username) ==
    LET requested_user == UserByLogin(username)
        new_request == [fk_initiator |-> author, fk_requested |-> requested_user,
                        fk_issue |-> i, fk_feedback_comment |-> NULL]
    IN IF requested_user = NoUser THEN [ok |-> FALSE, st |-> st]
       ELSE [ok |-> TRUE,
             st |-> [st EXCEPT !.rfc_feedback_request = @ \cup {new_request}]]

\* The FeedbackRequest arm: the query for an existing request filters by
\* requested user and issue, whether or not the request has its feedback.
process_FeedbackRequest(st, author, i, username) ==
    LET requested_user == UserByLogin(username)
        existing_request == {f \in st.rfc_feedback_request :
                                f.fk_requested = requested_user /\ f.fk_issue = i}
        new_request == [fk_initiator |-> author, fk_requested |-> requested_user,
                        fk_issue |-> i, fk_feedback_comment |-> NULL]
    IN IF requested_user = NoUser THEN [ok |-> FALSE, st |-> st]
       ELSE [ok |-> TRUE,
             st |-> IF existing_request # {} THEN st
                    ELSE [st EXCEPT !.rfc_feedback_request = @ \cup {new_request}]]

\* RfcBotCommand::process
process(st, cmd, author, i, comment_id, fails) ==
    CASE cmd.kind = "FcpPropose" -> process_FcpPropose(st, author, i, comment_id, cmd.arg, fails)
      [] cmd.kind = "FcpCancel" -> process_FcpCancel(st, author, i, fails)
      [] cmd.kind = "Reviewed" -> process_Reviewed(st, author, i)
      [] cmd.kind = "NewConcern" -> process_NewConcern(st, author, i, comment_id, cmd.arg)
      [] cmd.kind = "ResolveConcern" ->
            process_ResolveConcern(st, author, i, comment_id, cmd.arg)
      [] cmd.kind = "FeedbackRequest" -> process_FeedbackRequest(st, author, i, cmd.arg)

\* resolve_applicable_feedback_requests: the first request for (author, issue)
\* takes the comment as its feedback comment.
\* Faulty variant: the comment is answered.
resolve_applicable_feedback_requests_answered(st, author, i, comment_id) ==
    post(st, i, <<>>, NULL, {}, FALSE).st

\* Faulty variant: every request on the issue takes the comment, whoever was
\* asked.
resolve_applicable_feedback_requests_of_issue(st, author, i, comment_id) ==
    [st EXCEPT !.rfc_feedback_request =
        {IF f.fk_issue = i THEN [f EXCEPT !.fk_feedback_comment = comment_id] ELSE f : f \in @}]

resolve_applicable_feedback_requests(st, author, i, comment_id) ==
    LET existing_request == {f \in st.rfc_feedback_request :
                                f.fk_requested = author /\ f.fk_issue = i}
        request == CHOOSE f \in existing_request : TRUE
    IN IF existing_request = {} THEN st
       ELSE [st EXCEPT !.rfc_feedback_request =
                (@ \ {request}) \cup {[request EXCEPT !.fk_feedback_comment = comment_id]}]

\* ---------------------------------------------------------------- sweep

\* FcpDisposition::from_str succeeds on these strings only.
KnownDispositions == {"merge", "close", "postpone"}

\* Faulty variants of start_fcp: the label and the notification go out, the row
\* is not written; the row is written only if the label is attached.
start_fcp_unless_unlabelled(st, proposal, fails) ==
    LET i == proposal.fk_issue
        added_label == <<"add_label", i>> \notin fails
        label_call == [op |-> "add_label", issue |-> i, id |-> NULL,
                       body |-> <<>>, ok |-> added_label]
        labelled == [st EXCEPT !.out = Append(@, label_call),
                               !.gh_labels = IF added_label THEN @ \cup {i} ELSE @]
        started == [labelled EXCEPT !.fcp_proposal =
                       UpdateById(@, [proposal EXCEPT !.fcp_start = now])]
        fcp_start_comment ==
            format_FcpAllReviewedNoConcerns(i, proposal.fk_initiator,
                                            proposal.fk_bot_tracking_comment, added_label)
    IN IF ~post_comments
       THEN [st EXCEPT !.fcp_proposal = UpdateById(@, [proposal EXCEPT !.fcp_start = now])]
       ELSE IF ~added_label THEN labelled
       ELSE post(started, i, fcp_start_comment, NULL, fails, FALSE).st

start_fcp_unrecorded(st, proposal, fails) ==
    LET i == proposal.fk_issue
        added_label == <<"add_label", i>> \notin fails
        label_call == [op |-> "add_label", issue |-> i, id |-> NULL,
                       body |-> <<>>, ok |-> added_label]
        labelled == [st EXCEPT !.out = Append(@, label_call),
                               !.gh_labels = IF added_label THEN @ \cup {i} ELSE @]
        fcp_start_comment ==
            format_FcpAllReviewedNoConcerns(i, proposal.fk_initiator,
                                            proposal.fk_bot_tracking_comment, added_label)
    IN IF post_comments
       THEN post(labelled, i, fcp_start_comment, NULL, fails, FALSE).st
       ELSE st

\* if previous_comment.body != status_comment.body: the status comment is posted.
\* Faulty variant: it is posted whatever the stored body.
needs_update_always(previous_body, status_body) == TRUE

needs_update(previous_body, status_body) == previous_body # status_body

\* The FCP of a pending proposal starts (evaluate_nags, "FCP can start now"):
\* the row is written with fcp_start, then, when posting is enabled, the label
\* is attached and the notification posted.
start_fcp(st, proposal, fails) ==
    LET i == proposal.fk_issue
        started == [st EXCEPT !.fcp_proposal =
                       UpdateById(@, [proposal EXCEPT !.fcp_start = now])]
        added_label == <<"add_label", i>> \notin fails
        label_call == [op |-> "add_label", issue |-> i, id |-> NULL,
                       body |-> <<>>, ok |-> added_label]
        labelled == [started EXCEPT !.out = Append(@, label_call),
                                    !.gh_labels = IF added_label THEN @ \cup {i} ELSE @]
        fcp_start_comment ==
            format_FcpAllReviewedNoConcerns(i, proposal.fk_initiator,
                                            proposal.fk_bot_tracking_comment, added_label)
    IN IF post_comments
       THEN post(labelled, i, fcp_start_comment, NULL, fails, FALSE).st
       ELSE started

\* One turn of the loop over pending_proposals.  abort: the turn left
\* evaluate_nags with an error (a ? outside a match), ending the sweep.
pending_turn(st, proposal, fails) ==
    LET i == proposal.fk_issue
        initiator == proposal.fk_initiator
        cancelled == IF ~issue[i].open
                     THEN cancel_fcp(st, initiator, i, proposal, fails) ELSE st
        status == update_proposal_review_status(cancelled, proposal.id)
        reviews == list_review_requests(status.st, proposal.id)
        concerns == list_concerns_with_authors(status.st, proposal.id)
        num_active_reviews ==
            Cardinality({k \in 1..Len(reviews) : ~reviews[k].reviewed})
        num_active_concerns ==
            Cardinality({k \in 1..Len(concerns) : concerns[k].fk_resolved_comment = NULL})
        status_comment ==
            format_FcpProposed(i, initiator, proposal.disposition, reviews, concerns)
        tracking == proposal.fk_bot_tracking_comment
        posted == IF needs_update(status.st.issuecomment[tracking], status_comment)
                  THEN post(status.st, i, status_comment, tracking, fails, TRUE)
                  ELSE [ok |-> TRUE, id |-> tracking, st |-> status.st]
    IN IF ~status.ok THEN [abort |-> FALSE, st |-> status.st]
       ELSE IF proposal.disposition \notin KnownDispositions
               \/ tracking \notin DOMAIN status.st.issuecomment
       THEN [abort |-> TRUE, st |-> status.st]
       ELSE IF <<"previous_comment", i>> \in fails
       THEN [abort |-> TRUE,
             st |-> [status.st EXCEPT !.out = Append(@, StoreError("previous_comment", i))]]
       ELSE IF ~posted.ok THEN [abort |-> FALSE, st |-> posted.st]
       ELSE IF num_active_reviews = 0 /\ num_active_concerns = 0
       THEN [abort |-> FALSE, st |-> start_fcp(posted.st, proposal, fails)]
       ELSE [abort |-> FALSE, st |-> posted.st]

RECURSIVE pending_loop(_, _, _)
pending_loop(st, pending, fails) ==
    IF pending = <<>> THEN [abort |-> FALSE, st |-> st]
    ELSE LET turn == pending_turn(st, Head(pending), fails)
         IN IF turn.abort THEN turn ELSE pending_loop(turn.st, Tail(pending), fails)

\* Faulty variants of finished_fcps: without the filter on fcp_start; with lt
\* for le.
finished_fcps_unfiltered(st) == {p \in st.fcp_proposal : ~p.fcp_closed}

finished_fcps_lt(st) ==
    {p \in st.fcp_proposal :
        p.fcp_start # NULL /\ p.fcp_start < now - FcpDays /\ ~p.fcp_closed}

\* fcp_proposal.filter(fcp_start.le(now - 10 days)).filter(fcp_closed.eq(false))
finished_fcps(st) ==
    {p \in st.fcp_proposal :
        p.fcp_start # NULL /\ p.fcp_start <= now - FcpDays /\ ~p.fcp_closed}

\* Faulty variant of finished_turn: the row is written only if the comment is
\* posted.
finished_turn_posted_first(st, proposal, fails) ==
    LET posted == post(st, proposal.fk_issue, format_FcpWeekPassed, NULL, fails, FALSE)
    IN IF ~posted.ok THEN posted.st
       ELSE [posted.st EXCEPT !.fcp_proposal =
                UpdateById(@, [proposal EXCEPT !.fcp_closed = TRUE])]

\* One turn of the loop over finished_fcps.
finished_turn(st, proposal, fails) ==
    LET closed == [st EXCEPT !.fcp_proposal =
                      UpdateById(@, [proposal EXCEPT !.fcp_closed = TRUE])]
    IN post(closed, proposal.fk_issue, format_FcpWeekPassed, NULL, fails, FALSE).st

RECURSIVE finished_loop(_, _, _)
finished_loop(st, finished, fails) ==
    IF finished = <<>> THEN st
    ELSE finished_loop(finished_turn(st, Head(finished), fails), Tail(finished), fails)

\* fcp_proposal.filter(fcp_start.is_null())
pending_proposals(st) == {p \in st.fcp_proposal : p.fcp_start = NULL}

\* The orders in which a query without ORDER BY may return a set of rows.
Orders(rows) ==
    {o \in [1..Cardinality(rows) -> rows] : \A r \in rows : \E k \in DOMAIN o : o[k] = r}

\* evaluate_nags, the pending proposals loaded in the given order.
evaluate_nags(st, pending, fails) ==
    LET looped == pending_loop(st, pending, fails)
    IN IF looped.abort THEN looped.st
       ELSE finished_loop(looped.st, ById(finished_fcps(looped.st)), fails)

\* -------------------------------------------------------------- actions

\* comment: the comment being handled, or, once update_nags has returned from
\* evaluate_nags, "swept" with the number of pending proposals the sweep loaded.
NoComment ==
    [kind |-> "idle", arg |-> <<>>, author |-> NoUser, issue |-> 0, ok |-> TRUE, pending |-> 0]

Init ==
    /\ issue = [i \in Issues |-> [open |-> TRUE, labels |-> {"T-lang"}]]
    /\ post_comments \in BOOLEAN
    /\ now = 0
    /\ fcp_proposal = {}
    /\ fcp_review_request = {}
    /\ fcp_concern = {}
    /\ rfc_feedback_request = {}
    /\ issuecomment = <<>>
    /\ gh_comment = <<>>
    /\ gh_labels = {}
    /\ next_id = 1
    /\ next_proposal = 1
    /\ pc = "idle"
    /\ comment = NoComment
    /\ out = <<>>

\* The world after a handler step becomes the state.
Becomes(st) ==
    /\ fcp_proposal' = st.fcp_proposal
    /\ fcp_review_request' = st.fcp_review_request
    /\ fcp_concern' = st.fcp_concern
    /\ rfc_feedback_request' = st.rfc_feedback_request
    /\ issuecomment' = st.issuecomment
    /\ gh_comment' = st.gh_comment
    /\ gh_labels' = st.gh_labels
    /\ next_id' = st.next_id
    /\ next_proposal' = st.next_proposal
    /\ out' = st.out

\* Whether the store keeps the id of the comment being handled.
IdStored(st, comment_id) ==
    \/ \E p \in st.fcp_proposal : p.fk_initiating_comment = comment_id
    \/ \E c \in st.fcp_concern :
          c.fk_initiating_comment = comment_id \/ c.fk_resolved_comment = comment_id
    \/ \E f \in st.rfc_feedback_request : f.fk_feedback_comment = comment_id

\* update_nags up to its call of evaluate_nags, for an ingested comment by
\* author a on issue i whose body parses to the command of that kind and
\* argument (kind "none": it does not parse).  The comment takes the next id of
\* the platform; an id the store does not keep is not consumed.  The sweep
\* follows unless the author is no subteam member or the command failed.
\* A comment is handled when no other is being handled (pc = "idle").
\* failures: what may fail meanwhile; max_id: the last id the platform assigns.
update_nags_failing(kind, args, failures, max_id) ==
    /\ next_id + (IF kind = "FcpPropose" THEN 1 ELSE 0) <= max_id
    /\ \E a \in githubuser, i \in DOMAIN issue, arg \in args, fails \in failures :
       LET comment_id == next_id
           st == [World EXCEPT !.next_id = comment_id + 1]
           done == IF kind = "none"
                   THEN [ok |-> TRUE,
                         st |-> resolve_applicable_feedback_requests(st, a, i, comment_id)]
                   ELSE IF a \notin subteam_members(i)
                   THEN [ok |-> FALSE, st |-> st]
                   ELSE process(st, [kind |-> kind, arg |-> arg], a, i, comment_id, fails)
       IN /\ Becomes(IF IdStored(done.st, comment_id) THEN done.st
                     ELSE [done.st EXCEPT !.next_id = comment_id])
          /\ pc' = IF done.ok THEN "sweep" ELSE "idle"
          /\ comment' = [kind |-> kind, arg |-> IF kind = "FcpPropose" THEN <<arg>> ELSE arg,
                         author |-> a, issue |-> i, ok |-> done.ok, pending |-> 0]
    /\ UNCHANGED <<issue, post_comments, now>>

\* update_nags, the statements on the store succeeding and any one kind of
\* remote call failing or none.
update_nags(kind, args) ==
    update_nags_failing(kind, args,
        {f \in Failures : \A call \in f : call[1] \in RemoteOpsOf(kind)}, MaxId)

FcpPropose ==
    /\ pc = "idle"
    /\ update_nags("FcpPropose", Dispositions)

FcpCancel ==
    /\ pc = "idle"
    /\ update_nags("FcpCancel", {<<>>})

Reviewed ==
    /\ pc = "idle"
    /\ update_nags("Reviewed", {<<>>})

NewConcern ==
    /\ pc = "idle"
    /\ update_nags("NewConcern", ConcernNames)

ResolveConcern ==
    /\ pc = "idle"
    /\ update_nags("ResolveConcern", ConcernNames)

PlainComment ==
    /\ pc = "idle"
    /\ update_nags("none", {<<>>})


\* The call of evaluate_nags that ends update_nags.
Sweep ==
    /\ pc = "sweep"
    /\ \E fails \in Failures, pending \in Orders(pending_proposals(World)) :
          Becomes(evaluate_nags(World, pending, fails))
    /\ pc' = "idle"
    /\ comment' = [NoComment EXCEPT !.kind = "swept",
                                    !.pending = Cardinality(pending_proposals(World))]
    /\ UNCHANGED <<issue, post_comments, now>>

\* ---------------------------------------------------------- environment

Tables == <<fcp_proposal, fcp_review_request, fcp_concern, rfc_feedback_request>>

\* What every environment step does: it happens between two calls of
\* update_nags, and the record of the last call is dropped.
Env ==
    /\ pc = "idle"
    /\ out' = <<>>
    /\ comment' = NoComment
    /\ UNCHANGED <<pc, next_id, next_proposal, gh_labels>>
    /\ UNCHANGED Tables

\* The issue is closed on the platform and the store has ingested it.
CloseIssue ==
    /\ Env
    /\ \E i \in DOMAIN issue :
          /\ issue[i].open
          /\ issue' = [issue EXCEPT ![i].open = FALSE]
    /\ UNCHANGED <<post_comments, now, issuecomment, gh_comment>>

\* The FCPs that have started and are not closed.
Running == {p \in fcp_proposal : p.fcp_start # NULL /\ ~p.fcp_closed}

\* Time passes.  Only the time since an FCP started is ever read: time is
\* counted while an FCP is running, and leaps to the eve of the day the
\* running FCPs are first due, then goes on day by day.
Tick ==
    /\ Env
    /\ Running # {}
    /\ LET eve == CHOOSE t \in {p.fcp_start + FcpDays - 1 : p \in Running} :
                     \A p \in Running : t <= p.fcp_start + FcpDays - 1
       IN now' = IF now < eve THEN eve ELSE now + 1
    /\ now' <= MaxTime
    /\ UNCHANGED <<issue, post_comments, issuecomment, gh_comment>>

\* The process is restarted with comment posting switched on or off.
Restart ==
    /\ Env
    /\ post_comments' = ~post_comments
    /\ UNCHANGED <<issue, now, issuecomment, gh_comment>>

\* The tracking comments of the pending proposals, the only ones whose stored
\* bodies are read.
PendingTracking == {p.fk_bot_tracking_comment : p \in pending_proposals(World)}

SetBox(body, u, checked) ==
    [k \in 1..Len(body) |->
        IF body[k] = (IF checked THEN UncheckedBox ELSE CheckedBox) \o Login(u)
        THEN (IF checked THEN CheckedBox ELSE UncheckedBox) \o Login(u)
        ELSE body[k]]

\* A user of the store who is on no team of the issue as it is first labelled.
Stranger == "c"
StrangerLine == CheckedBox \o Login(Stranger)

\* A person edits a tracking comment on the platform (ticks or unticks the box
\* of a team member, or adds one ticked line naming the stranger above the
\* others), and the edited comment is ingested into the store.
EditComment ==
    /\ Env
    /\ \E id \in PendingTracking \cap DOMAIN gh_comment :
       \E body \in {SetBox(gh_comment[id], u, b) : u \in githubuser \ {Stranger}, b \in BOOLEAN}
                   \cup {<<StrangerLine>> \o gh_comment[id]} :
          /\ body # gh_comment[id]
          /\ Cardinality({k \in 1..Len(body) : body[k] = StrangerLine}) <= 1
          /\ gh_comment' = [gh_comment EXCEPT ![id] = body]
          /\ issuecomment' = [issuecomment EXCEPT ![id] = body]
    /\ UNCHANGED <<issue, post_comments, now>>

\* The platform's body of a tracking comment, as the bot last wrote it, is
\* ingested into the store.
SyncComment ==
    /\ Env
    /\ \E id \in DOMAIN gh_comment \cap DOMAIN issuecomment :
          /\ issuecomment[id] # gh_comment[id]
          /\ issuecomment' = [issuecomment EXCEPT ![id] = gh_comment[id]]
    /\ UNCHANGED <<issue, post_comments, now, gh_comment>>

Next ==
    \/ FcpPropose
    \/ FcpCancel
    \/ Reviewed
    \/ NewConcern
    \/ ResolveConcern
    \/ PlainComment
    \/ Sweep
    \/ CloseIssue
    \/ Tick
    \/ Restart
    \/ EditComment
    \/ SyncComment

Spec == Init /\ [][Next]_vars

\* ------------------------------- two issues, statements that fail

\* Statements on the store whose error leaves the function with ?: the insert
\* of the review requests of a new proposal, and the sweep's query for the
\* stored tracking comment of a pending proposal.
StoreOps == {"insert_review_requests", "previous_comment"}

\* What fails during one step of the handler: nothing, or one of these
\* statements for one issue.
StoreFailures(ops) == {{}} \cup {{<<op, i>>} : op \in ops, i \in DOMAIN issue}

\* The last comment id of the platform when statements may fail.
MaxIdStore == MaxId + 1

\* Two open issues, posting enabled, every table empty.
InitStore ==
    /\ issue = [i \in {1, 2} |-> [open |-> TRUE, labels |-> {"T-lang"}]]
    /\ post_comments = TRUE
    /\ now = 0
    /\ fcp_proposal = {}
    /\ fcp_review_request = {}
    /\ fcp_concern = {}
    /\ rfc_feedback_request = {}
    /\ issuecomment = <<>>
    /\ gh_comment = <<>>
    /\ gh_labels = {}
    /\ next_id = 1
    /\ next_proposal = 1
    /\ pc = "idle"
    /\ comment = NoComment
    /\ out = <<>>

\* update_nags for a Propose command; the insert of the review requests may
\* fail.
FcpProposeStore ==
    /\ pc = "idle"
    /\ update_nags_failing("FcpPropose", {"merge"},
                           StoreFailures({"insert_review_requests"}), MaxIdStore)

\* update_nags for the other commands, every statement and call succeeding.
FcpCancelStore ==
    /\ pc = "idle"
    /\ update_nags_failing("FcpCancel", {<<>>}, {{}}, MaxIdStore)

ReviewedStore ==
    /\ pc = "idle"
    /\ update_nags_failing("Reviewed", {<<>>}, {{}}, MaxIdStore)

NewConcernStore ==
    /\ pc = "idle"
    /\ update_nags_failing("NewConcern", ConcernNames, {{}}, MaxIdStore)

ResolveConcernStore ==
    /\ pc = "idle"
    /\ update_nags_failing("ResolveConcern", ConcernNames, {{}}, MaxIdStore)

\* The call of evaluate_nags that ends update_nags; its query for a stored
\* tracking comment may fail.
SweepStore ==
    /\ pc = "sweep"
    /\ \E fails \in StoreFailures({"previous_comment"}),
          pending \in Orders(pending_proposals(World)) :
          Becomes(evaluate_nags(World, pending, fails))
    /\ pc' = "idle"
    /\ comment' = [NoComment EXCEPT !.kind = "swept",
                                    !.pending = Cardinality(pending_proposals(World))]
    /\ UNCHANGED <<issue, post_comments, now>>

NextStore ==
    \/ FcpProposeStore
    \/ FcpCancelStore
    \/ ReviewedStore
    \/ NewConcernStore
    \/ ResolveConcernStore
    \/ SweepStore
    \/ Tick

SpecStore == InitStore /\ [][NextStore]_vars

\* ------------------------------------------------- feedback requests

\* The logins a feedback request may name: the users of the store, and one
\* the store does not know.
RequestedLogins == {Login(u) : u \in githubuser} \cup {<<"z">>}

\* update_nags for a FeedbackRequest command.
FeedbackRequest ==
    /\ pc = "idle"
    /\ update_nags("FeedbackRequest", RequestedLogins)

\* Comments that are feedback requests and comments that are no command.
NextFeedback ==
    \/ FeedbackRequest
    \/ PlainComment
    \/ Sweep

SpecFeedback == Init /\ [][NextFeedback]_vars

\* Feedback requests on two issues, for the member a and the stranger, with
\* comments that are no command and Reviewed commands by every user.
FeedbackRequestStore ==
    /\ pc = "idle"
    /\ update_nags_failing("FeedbackRequest", {Login("a"), Login(Stranger)}, {{}}, MaxId)

PlainCommentStore ==
    /\ pc = "idle"
    /\ update_nags_failing("none", {<<>>}, {{}}, MaxId)

NextFeedbackStore ==
    \/ FeedbackRequestStore
    \/ PlainCommentStore
    \/ ReviewedStore
    \/ SweepStore

SpecFeedbackStore == InitStore /\ [][NextFeedbackStore]_vars

\* ------------------------- concern names that read as checkbox lines

\* The concern names of the commands: any text is a name (the rest of the
\* command's line).
AnyConcernNames == {NameOrder[k] : k \in 1..Len(NameOrder)}

NewConcernNamed ==
    /\ pc = "idle"
    /\ update_nags("NewConcern", AnyConcernNames)

ResolveConcernNamed ==
    /\ pc = "idle"
    /\ update_nags("ResolveConcern", AnyConcernNames)

NextNamed ==
    \/ FcpPropose
    \/ Reviewed
    \/ NewConcernNamed
    \/ ResolveConcernNamed
    \/ Sweep
    \/ SyncComment

SpecNamed == Init /\ [][NextNamed]_vars

\* ------------------------------------------- the labels of an issue change

\* A team label is put on, or taken off, the issue on the platform and the
\* store has ingested it.
Relabel ==
    /\ Env
    /\ \E i \in DOMAIN issue, label \in TeamLabels :
          issue' = [issue EXCEPT ![i].labels =
                       IF label \in @ THEN @ \ {label} ELSE @ \cup {label}]
    /\ UNCHANGED <<post_comments, now, issuecomment, gh_comment>>

NextTeams ==
    \/ FcpPropose
    \/ FcpCancel
    \/ Reviewed
    \/ Sweep
    \/ Relabel
    \/ EditComment
    \/ SyncComment

SpecTeams == Init /\ [][NextTeams]_vars

\* ------------------------------------- edits of a comment once FCP started

\* A person ticks or unticks a box of the tracking comment of a proposal whose
\* FCP is running, and the edited comment is ingested into the store.
EditStarted ==
    /\ Env
    /\ \E id \in {p.fk_bot_tracking_comment : p \in Running} \cap DOMAIN gh_comment :
       \E body \in {SetBox(gh_comment[id], u, b) : u \in githubuser, b \in BOOLEAN} :
          /\ body # gh_comment[id]
          /\ gh_comment' = [gh_comment EXCEPT ![id] = body]
          /\ issuecomment' = [issuecomment EXCEPT ![id] = body]
    /\ UNCHANGED <<issue, post_comments, now>>

NextStarted ==
    \/ FcpPropose
    \/ Reviewed
    \/ NewConcern
    \/ ResolveConcern
    \/ Sweep
    \/ Tick
    \/ EditStarted
    \/ SyncComment

SpecStarted == Init /\ [][NextStarted]_vars

\* --------------------------------------- two invocations at the same time

\* update_nags is called from the thread of the scraper and from the threads
\* of the web server, and takes no lock.  Here two invocations run, their
\* queries and statements interleaved.  pc[t] is the position of invocation t
\* and comment[t] its comment with what it has read: existing, the answer of
\* the query for the issue's proposal; pending, the rows evaluate_nags loaded.
\* out is the log of all remote calls made.  The review state is changed by
\* commands only.
Threads == {1, 2}

NoRead == [kind |-> "idle", author |-> NoUser, issue |-> 0, id |-> 0,
           existing |-> {}, pending |-> {}]

InitConcurrent ==
    /\ issue = [i \in Issues |-> [open |-> TRUE, labels |-> {"T-lang"}]]
    /\ post_comments = TRUE
    /\ now = 0
    /\ fcp_proposal = {}
    /\ fcp_review_request = {}
    /\ fcp_concern = {}
    /\ rfc_feedback_request = {}
    /\ issuecomment = <<>>
    /\ gh_comment = <<>>
    /\ gh_labels = {}
    /\ next_id = 1
    /\ next_proposal = 1
    /\ pc = [t \in Threads |-> "idle"]
    /\ comment = [t \in Threads |-> NoRead]
    /\ out = <<>>

\* update_nags is called with a comment; it reads the issue, the author and
\* the members, returns if the author is no member, and process queries the
\* proposal of the issue.
Begin(t) ==
    /\ pc[t] = "idle"
    /\ next_id <= MaxId
    /\ \E kind \in {"FcpPropose", "Reviewed"}, a \in githubuser, i \in DOMAIN issue :
          /\ pc' = [pc EXCEPT ![t] = IF a \in subteam_members(i) THEN "process" ELSE "idle"]
          /\ comment' = [comment EXCEPT ![t] =
                            IF a \in subteam_members(i)
                            THEN [kind |-> kind, author |-> a, issue |-> i, id |-> next_id,
                                  existing |-> existing_proposal(World, i), pending |-> {}]
                            ELSE NoRead]
    /\ next_id' = next_id + 1
    /\ UNCHANGED <<issue, post_comments, now, fcp_proposal, fcp_review_request,
                   fcp_concern, rfc_feedback_request, issuecomment, gh_comment,
                   gh_labels, next_proposal, out>>

\* The arm of the command runs on the answer the query gave: the FcpPropose
\* arm creates a proposal if the query found none, the Reviewed arm marks the
\* author's review request on the proposal found.
Process(t) ==
    /\ pc[t] = "process"
    /\ LET c == comment[t]
           st == [World EXCEPT !.out = out]
           others == {p \in fcp_proposal : p.fk_issue = c.issue}
           unseen == process_FcpPropose([st EXCEPT !.fcp_proposal = @ \ others],
                                        c.author, c.issue, c.id, "merge", {})
           done == IF c.existing = {}
                   THEN IF c.kind = "FcpPropose"
                        THEN [ok |-> unseen.ok,
                              st |-> [unseen.st EXCEPT !.fcp_proposal = @ \cup others]]
                        ELSE [ok |-> TRUE, st |-> st]
                   ELSE IF c.kind = "FcpPropose" THEN [ok |-> TRUE, st |-> st]
                        ELSE process_Reviewed(st, c.author, c.issue)
       IN /\ Becomes(done.st)
          /\ pc' = [pc EXCEPT ![t] = IF done.ok THEN "load" ELSE "idle"]
          /\ comment' = [comment EXCEPT ![t] = IF done.ok THEN @ ELSE NoRead]
    /\ UNCHANGED <<issue, post_comments, now>>

\* evaluate_nags loads the pending proposals.
Load(t) ==
    /\ pc[t] = "load"
    /\ pc' = [pc EXCEPT ![t] = "turns"]
    /\ comment' = [comment EXCEPT ![t].pending = pending_proposals(World)]
    /\ UNCHANGED <<issue, post_comments, now, fcp_proposal, fcp_review_request,
                   fcp_concern, rfc_feedback_request, issuecomment, gh_comment,
                   gh_labels, next_id, next_proposal, out>>

\* evaluate_nags takes its turns over the rows it loaded, and returns.
Turns(t) ==
    /\ pc[t] = "turns"
    /\ \E pending \in Orders(comment[t].pending) :
          Becomes(evaluate_nags([World EXCEPT !.out = out], pending, {}))
    /\ pc' = [pc EXCEPT ![t] = "idle"]
    /\ comment' = [comment EXCEPT ![t] = NoRead]
    /\ UNCHANGED <<issue, post_comments, now>>

NextConcurrent == \E t \in Threads : Begin(t) \/ Process(t) \/ Load(t) \/ Turns(t)

SpecConcurrent == InitConcurrent /\ [][NextConcurrent]_vars

\* --------------------------------------------------------------- parser

\* A body given to from_str is a sequence of lines (str::lines), a line a
\* sequence of characters.

\* RFC_BOT_MENTION
RFC_BOT_MENTION == <<"@", "r", "f", "c", "b", "o", "t">>

\* The words from_str matches on.
Word_fcp == <<"f", "c", "p">>
Word_pr == <<"p", "r">>
Word_merge == <<"m", "e", "r", "g", "e">>
Word_close == <<"c", "l", "o", "s", "e">>
Word_postpone == <<"p", "o", "s", "t", "p", "o", "n", "e">>
Word_cancel == <<"c", "a", "n", "c", "e", "l">>
Word_concern == <<"c", "o", "n", "c", "e", "r", "n">>
Word_resolved == <<"r", "e", "s", "o", "l", "v", "e", "d">>
Word_reviewed == <<"r", "e", "v", "i", "e", "w", "e", "d">>
Word_feedback == <<"f", "?">>

\* str::trim
RECURSIVE TrimRight(_)
TrimRight(s) ==
    IF s # <<>> /\ s[Len(s)] = " " THEN TrimRight(SubSeq(s, 1, Len(s) - 1)) ELSE s

Trim(s) == TrimRight(SkipSpaces(s))

\* str::split_whitespace, collected
RECURSIVE SplitWhitespace(_)
SplitWhitespace(s) ==
    LET rest == SkipSpaces(s)
        token == TakeToken(rest)
    IN IF rest = <<>> THEN <<>>
       ELSE <<token>> \o SplitWhitespace(SubSeq(rest, Len(token) + 1, Len(rest)))

\* str::find(pattern), for a pattern that occurs: the offset of its first
\* occurrence.
Find(s, pattern) ==
    CHOOSE k \in 0..Len(s) :
       /\ SubSeq(s, k + 1, k + Len(pattern)) = pattern
       /\ \A j \in 0..(k - 1) : SubSeq(s, j + 1, j + Len(pattern)) # pattern

\* Err(DashError::Misc(..)) of from_str, and its Ok values.
ParseError == [kind |-> "none", arg |-> <<>>]
Command(kind, arg) == [kind |-> kind, arg |-> arg]

\* command.lines().find(|l| l.starts_with(RFC_BOT_MENTION)): the lines found,
\* none or the first.
\* Faulty variants: only the first line of the body is looked at; the last
\* line that starts with the mention is found.
find_mention_line_top(body) ==
    IF body # <<>> /\ StartsWith(body[1], RFC_BOT_MENTION) THEN <<body[1]>> ELSE <<>>

find_mention_line_last(body) ==
    LET found == SelectSeq(body, LAMBDA l : StartsWith(l, RFC_BOT_MENTION))
    IN IF found = <<>> THEN <<>> ELSE <<found[Len(found)]>>

find_mention_line(body) ==
    LET found == SelectSeq(body, LAMBDA l : StartsWith(l, RFC_BOT_MENTION))
    IN IF found = <<>> THEN <<>> ELSE <<found[1]>>

\* command[name_start..].trim(), name_start the end of the first occurrence
\* of the keyword.
\* Faulty variant: the name is the token after the keyword.
concern_name_token(command, keyword) ==
    LET tokens == SplitWhitespace(command)
    IN IF Len(tokens) < 2 THEN <<>> ELSE tokens[2]

concern_name(command, keyword) ==
    LET name_start == Find(command, keyword) + Len(keyword)
    IN Trim(SubSeq(command, name_start + 1, Len(command)))

\* The match on the subcommand of fcp and pr.
match_subcommand(subcommand) ==
    IF subcommand = Word_merge THEN Command("FcpPropose", "merge")
    ELSE IF subcommand = Word_close THEN Command("FcpPropose", "close")
    ELSE IF subcommand = Word_postpone THEN Command("FcpPropose", "postpone")
    ELSE IF subcommand = Word_cancel THEN Command("FcpCancel", <<>>)
    ELSE ParseError

\* RfcBotCommand::from_str
from_str(body) ==
    LET line == find_mention_line(body)
        command == Trim(TrimLeftMatches(TrimLeftMatches(line[1], RFC_BOT_MENTION), <<":">>))
        tokens == SplitWhitespace(command)
        invocation == tokens[1]
    IN IF line = <<>> THEN ParseError
       ELSE IF tokens = <<>> THEN ParseError
       ELSE IF invocation \in {Word_fcp, Word_pr}
       THEN IF Len(tokens) < 2 THEN ParseError ELSE match_subcommand(tokens[2])
       ELSE IF invocation = Word_concern
       THEN Command("NewConcern", concern_name(command, Word_concern))
       ELSE IF invocation = Word_resolved
       THEN Command("ResolveConcern", concern_name(command, Word_resolved))
       ELSE IF invocation = Word_reviewed THEN Command("Reviewed", <<>>)
       ELSE IF invocation = Word_feedback
       THEN IF Len(tokens) < 2 THEN ParseError
            ELSE Command("FeedbackRequest", Tail(tokens[2]))
       ELSE ParseError

\* Bounds of the bodies parsed: the pieces of a line after its head, and the
\* lines of a body of several lines.
MaxPieces == 3
MaxLines == 3

\* All concatenations of at most n of the pieces.
RECURSIVE Concatenations(_, _)
Concatenations(pieces, n) ==
    IF n = 0 THEN {<<>>}
    ELSE LET shorter == Concatenations(pieces, n - 1)
         IN shorter \cup {piece \o rest : piece \in pieces, rest \in shorter}

Words == {Word_fcp, Word_pr, Word_merge, Word_close, Word_postpone, Word_cancel,
          Word_concern, Word_resolved, Word_reviewed, Word_feedback}

\* How a line begins: with the mention, bare, doubled, followed by colons or
\* spaces, or not with it.
LineHeads ==
    {<<>>, <<" ">>, <<"x", " ">>}
    \cup {RFC_BOT_MENTION \o after :
             after \in {<<>>, <<":">>, <<" ">>, <<":", " ">>, <<":", ":", " ">>,
                        RFC_BOT_MENTION \o <<" ">>}}

\* What follows the head: words, spaces and characters in any order, and,
\* after concern, resolved and f?, longer remainders of characters.
LineTails ==
    Concatenations(Words \cup {<<" ">>, <<"@">>, <<"b">>, <<":">>}, MaxPieces)
    \cup {word \o <<" ">> \o rest :
             word \in {Word_concern, Word_resolved, Word_feedback},
             rest \in Concatenations({<<" ">>, <<"@">>, <<"b">>, <<"n">>}, MaxPieces)}

\* The lines of the bodies of several lines.
FewLines ==
    {<<"n">>,
     <<" ">> \o RFC_BOT_MENTION \o <<" ">> \o Word_fcp \o <<" ">> \o Word_close,
     RFC_BOT_MENTION \o <<" ">> \o Word_fcp \o <<" ">> \o Word_merge,
     RFC_BOT_MENTION \o <<":", " ">> \o Word_fcp \o <<" ">> \o Word_merge,
     RFC_BOT_MENTION \o <<" ">> \o Word_fcp \o <<" ">> \o Word_cancel,
     RFC_BOT_MENTION \o <<" ">> \o Word_reviewed,
     RFC_BOT_MENTION \o <<" ">> \o Word_resolved \o <<" ", "n", " ", "b">>,
     RFC_BOT_MENTION \o <<" ">> \o Word_concern \o <<" ", "n">>,
     RFC_BOT_MENTION \o <<" ">> \o Word_fcp,
     RFC_BOT_MENTION \o <<" ", "b">>}

Bodies ==
    {<<head \o tail>> : head \in LineHeads, tail \in LineTails}
    \cup UNION {[1..n -> FewLines] : n \in 0..MaxLines}

\* The comment ingested is the first of the platform and nothing else is in
\* the store.
InitParser ==
    /\ issue = [i \in Issues |-> [open |-> TRUE, labels |-> {"T-lang"}]]
    /\ post_comments = TRUE
    /\ now = 0
    /\ fcp_proposal = {}
    /\ fcp_review_request = {}
    /\ fcp_concern = {}
    /\ rfc_feedback_request = {}
    /\ issuecomment \in {(1 :> body) : body \in Bodies}
    /\ gh_comment = <<>>
    /\ gh_labels = {}
    /\ next_id = 2
    /\ next_proposal = 1
    /\ pc = "idle"
    /\ comment = NoComment
    /\ out = <<>>

\* update_nags parses the body of the comment (RfcBotCommand::from_str).
Parse ==
    /\ comment = NoComment
    /\ LET command == from_str(issuecomment[1])
       IN comment' = [NoComment EXCEPT !.kind = command.kind,
                                       !.arg = command.arg,
                                       !.ok = (command # ParseError)]
    /\ UNCHANGED <<issue, post_comments, now, fcp_proposal, fcp_review_request,
                   fcp_concern, rfc_feedback_request, issuecomment, gh_comment,
                   gh_labels, next_id, next_proposal, pc, out>>

SpecParser == InitParser /\ [][Parse]_vars

\* ----------------------------------------------------------- properties

\* A step of the sweep: update_nags calls evaluate_nags and returns.
SweepStep == pc = "sweep" /\ pc' = "idle"

ProposalsOf(i) == {p \in fcp_proposal : p.fk_issue = i}

\* The remote calls of the last step that edit the comment of that id.
EditsOf(calls, id) ==
    {k \in 1..Len(calls) : calls[k].op = "edit_comment" /\ calls[k].id = id}

HasLine(body, line) == \E k \in 1..Len(body) : body[k] = line

\* The review requests of a proposal are all reviewed; none of its concerns is
\* unresolved.
AllReviewed(requests, proposal_id) ==
    \A r \in requests : r.fk_proposal = proposal_id => r.reviewed

NoneUnresolved(concerns, proposal_id) ==
    \A c \in concerns : c.fk_proposal = proposal_id => c.fk_resolved_comment # NULL

\* The sweep's re-derivation of the review state of proposal q does not fail:
\* every ticked line of the stored tracking comment names a user who has a
\* review request on q.
RederivationSucceeds(q) ==
    LET names == ReviewedNames(issuecomment[q.fk_bot_tracking_comment])
    IN \A k \in 1..Len(names) :
          \E r \in fcp_review_request :
             r.fk_proposal = q.id /\ Login(r.fk_reviewer) = names[k]

\* The sweep's turn for the pending proposal q runs to its end: the issue is
\* open, posting is enabled, the re-derivation succeeds and no edit of the
\* tracking comment the sweep calls for fails.
TurnCompletes(q) ==
    /\ issue[q.fk_issue].open
    /\ post_comments
    /\ RederivationSucceeds(q)
    /\ \A k \in EditsOf(out', q.fk_bot_tracking_comment) : out'[k].ok

(* C1: whatever comments were handled and sweeps run, one after the other,  *)
(* every issue has at most one proposal row: a Propose command handled for  *)
(* an issue that has a proposal creates no second one.                      *)
C1_OneProposalPerIssue == \A i \in Issues : Cardinality(ProposalsOf(i)) <= 1

\* A Propose command was processed, without any remote call, for an issue
\* that has a proposal.
C1_Witness ==
    /\ pc = "sweep"
    /\ comment.kind = "FcpPropose"
    /\ out = <<>>
    /\ ProposalsOf(comment.issue) # {}

(* C2: in every reachable state a proposal with fcp_closed = true has       *)
(* fcp_start set.                                                           *)
C2_ClosedImpliesStarted == \A p \in fcp_proposal : p.fcp_closed => p.fcp_start # NULL

C2_Witness == \E p \in fcp_proposal : p.fcp_closed

(* C3: a step changes the fcp_start of a proposal only if fcp_start was     *)
(* unset before it and, at the transition (the review state re-derived by   *)
(* that sweep), the proposal has no review request with reviewed = false,   *)
(* no concern without a resolving comment, and its issue is open; only the  *)
(* sweep does it.                                                           *)
C3_StartOnlyWhenDue ==
    [][\A q \in fcp_proposal, p \in fcp_proposal' :
          (p.id = q.id /\ p.fcp_start # q.fcp_start) =>
             /\ SweepStep
             /\ q.fcp_start = NULL
             /\ AllReviewed(fcp_review_request', q.id)
             /\ NoneUnresolved(fcp_concern', q.id)
             /\ issue[q.fk_issue].open]_vars

\* A sweep has just started the FCP of a proposal that has a concern.
C3_Witness ==
    /\ comment.kind = "swept"
    /\ \E p \in fcp_proposal :
          /\ p.fcp_start = now
          /\ \E k \in 1..Len(out) : out[k].op = "add_label" /\ out[k].issue = p.fk_issue
          /\ \E c \in fcp_concern : c.fk_proposal = p.id

(* C4: a sweep whose turn for a pending proposal completes, the proposal's  *)
(* review requests being all reviewed and none of its concerns unresolved,  *)
(* sets its fcp_start, to the time of the sweep; a sweep leaves a fcp_start *)
(* that is set as it is.                                                    *)
C4_SweepStartsOnce ==
    [][SweepStep =>
          \A q \in fcp_proposal :
             /\ (/\ q.fcp_start = NULL
                 /\ AllReviewed(fcp_review_request, q.id)
                 /\ NoneUnresolved(fcp_concern, q.id)
                 /\ TurnCompletes(q))
                => \E p \in fcp_proposal' : p.id = q.id /\ p.fcp_start = now
             /\ q.fcp_start # NULL
                => \E p \in fcp_proposal' : p.id = q.id /\ p.fcp_start = q.fcp_start]_vars

\* A sweep, posting enabled, has found no pending proposal and made no call,
\* and left alone a proposal whose FCP an earlier sweep started.
C4_Witness ==
    /\ comment.kind = "swept"
    /\ comment.pending = 0
    /\ post_comments
    /\ out = <<>>
    /\ \E p \in fcp_proposal : p.fcp_start # NULL /\ ~p.fcp_closed

IsFcpStartedNotification(call, q) ==
    \E added_label \in BOOLEAN :
       call.body = format_FcpAllReviewedNoConcerns(q.fk_issue, q.fk_initiator,
                                                   q.fk_bot_tracking_comment, added_label)

(* C6: the sweep deletes a proposal whose fcp_start is unset and whose      *)
(* issue is closed, with its review requests and its concerns, and neither  *)
(* sets its fcp_start nor labels the issue nor posts the notification that  *)
(* its FCP has started; it does not delete a proposal whose fcp_start is    *)
(* set, whether its issue is closed or open.                                *)
C6_ClosedIssueCancelsPending ==
    [][SweepStep =>
          \A q \in fcp_proposal :
             /\ (q.fcp_start = NULL /\ ~issue[q.fk_issue].open)
                => /\ \A p \in fcp_proposal' : p.id # q.id
                   /\ \A r \in fcp_review_request' : r.fk_proposal # q.id
                   /\ \A c \in fcp_concern' : c.fk_proposal # q.id
                   /\ \A k \in 1..Len(out') :
                         /\ out'[k].op # "add_label"
                         /\ ~IsFcpStartedNotification(out'[k], q)
             /\ q.fcp_start # NULL => \E p \in fcp_proposal' : p.id = q.id]_vars

\* A sweep has loaded a pending proposal of a closed issue, and no proposal and
\* no review request is left.
C6_Witness ==
    /\ comment.kind = "swept"
    /\ comment.pending > 0
    /\ \A i \in Issues : ~issue[i].open
    /\ fcp_proposal = {}
    /\ fcp_review_request = {}

(* C7: no step (a Reviewed command, another command, a sweep, an edit of    *)
(* the tracking comment) changes the reviewed flag of a review request from *)
(* true to false; a stored tracking comment with an unticked box for a user *)
(* whose flag is true leaves it true.                                       *)
C7_ReviewedIsMonotonic ==
    [][\A r \in fcp_review_request, s \in fcp_review_request' :
          (s.fk_proposal = r.fk_proposal /\ s.fk_reviewer = r.fk_reviewer /\ r.reviewed)
             => s.reviewed]_vars

\* A sweep has loaded a pending proposal whose stored tracking comment shows an
\* unticked box for a user whose flag is true.
C7_Witness ==
    /\ comment.kind = "swept"
    /\ comment.pending > 0
    /\ \E p \in fcp_proposal, r \in fcp_review_request :
          /\ r.fk_proposal = p.id
          /\ r.reviewed
          /\ HasLine(issuecomment[p.fk_bot_tracking_comment],
                     UncheckedBox \o Login(r.fk_reviewer))

RenderedAfter(q) ==
    LET after == [fcp_review_request |-> fcp_review_request', fcp_concern |-> fcp_concern']
    IN format_FcpProposed(q.fk_issue, q.fk_initiator, q.disposition,
                          list_review_requests(after, q.id),
                          list_concerns_with_authors(after, q.id))

(* C9: in a sweep the status comment of a pending proposal is written to    *)
(* the platform only if the text rendered differs from the stored body of   *)
(* the tracking comment, and what is written is the text rendered; it is    *)
(* written if they differ, the issue being open, posting enabled and the    *)
(* re-derivation succeeding.  When they are equal the sweep makes no edit   *)
(* call for the proposal.                                                   *)
C9_WrittenIffChanged ==
    [][SweepStep =>
          \A q \in fcp_proposal :
             q.fcp_start = NULL =>
                LET tracking == q.fk_bot_tracking_comment
                    differs == RenderedAfter(q) # issuecomment[tracking]
                IN /\ \A k \in EditsOf(out', tracking) :
                         differs /\ out'[k].body = RenderedAfter(q)
                   /\ (/\ differs
                       /\ issue[q.fk_issue].open
                       /\ post_comments
                       /\ RederivationSucceeds(q))
                      => EditsOf(out', tracking) # {}]_vars

\* A sweep, posting enabled, has passed over a pending proposal of an open
\* issue, whose re-derivation succeeds, without any call.
C9_Witness ==
    /\ comment.kind = "swept"
    /\ comment.pending > 0
    /\ post_comments
    /\ out = <<>>
    /\ \E p \in fcp_proposal :
          /\ p.fcp_start = NULL
          /\ issue[p.fk_issue].open
          /\ RederivationSucceeds(p)

(* C10: the bot never posts again what the comment holds already: no sweep, *)
(* be it after another sweep or after the comment update of a Propose       *)
(* command, writes to a tracking comment the body the platform has of it.   *)
C10_NeverRepostsUnchanged ==
    [][SweepStep =>
          \A k \in 1..Len(out') :
             (out'[k].op = "edit_comment" /\ out'[k].id \in DOMAIN gh_comment)
                => out'[k].body # gh_comment[out'[k].id]]_vars

\* The kinds of command a comment may parse to.
CommandKinds == {"FcpPropose", "FcpCancel", "Reviewed", "NewConcern", "ResolveConcern"}

\* A step of update_nags up to the sweep, for a comment of that kind on issue i.
CommandStep(kind, i) == pc = "idle" /\ comment'.kind = kind /\ comment'.issue = i

\* The step leaves the platform as it is and calls nothing.
NoRemoteWrite == out' = <<>> /\ UNCHANGED <<gh_comment, gh_labels>>

(* C12: update_nags for a command, of any kind, whose author is in no       *)
(* subteam of the issue changes no row of fcp_proposal, fcp_review_request, *)
(* fcp_concern and rfc_feedback_request, makes no remote call (no comment   *)
(* posted or edited, no label), and returns without the sweep.              *)
C12_NonMemberChangesNothing ==
    [][\A kind \in CommandKinds, i \in Issues :
          (CommandStep(kind, i) /\ comment'.author = Stranger)
             => /\ UNCHANGED Tables
                /\ UNCHANGED issuecomment
                /\ NoRemoteWrite
                /\ pc' = "idle"]_vars

\* update_nags has returned from a Cancel command of the stranger on an issue
\* that has a pending proposal.
C12_Witness ==
    /\ pc = "idle"
    /\ comment.kind = "FcpCancel"
    /\ comment.author = Stranger
    /\ \E p \in ProposalsOf(comment.issue) : p.fcp_start = NULL

(* C13, as amended: for a comment that parses to no command, update_nags    *)
(* up to its call of evaluate_nags posts no comment, edits none and adds no *)
(* label; the sweep it then runs writes what a sweep writes.                *)
C13_UnparsedCommentIsNotAnswered ==
    [][\A i \in Issues : CommandStep("none", i) => NoRemoteWrite /\ pc' = "sweep"]_vars

\* update_nags has handled a comment that is no command, on an issue with a
\* pending proposal, and is about to sweep.
C13_Witness ==
    /\ pc = "sweep"
    /\ comment.kind = "none"
    /\ out = <<>>
    /\ \E p \in ProposalsOf(comment.issue) : p.fcp_start = NULL

(* C13, as stated: the invocation of update_nags for a comment that parses  *)
(* to no command, its sweep included, posts no comment, edits none and adds *)
(* no label.                                                                *)
C13_UnparsedCommentWritesNothing ==
    [][/\ \A i \in Issues : CommandStep("none", i) => NoRemoteWrite
       /\ (SweepStep /\ comment.kind = "none") => out' = <<>>]_vars

(* C14: a Propose command of disposition d by subteam member a, on an issue *)
(* without a proposal, that succeeds creates one proposal for the issue     *)
(* with disposition d, initiator a, fcp_start unset, fcp_closed false and,  *)
(* as tracking comment, the comment the command has just posted; and one    *)
(* review request on it for every subteam member, reviewed for a and not    *)
(* reviewed for the others.                                                 *)
C14_ProposeCreatesProposal ==
    [][\A i \in Issues, a \in githubuser, d \in Dispositions :
          (/\ CommandStep("FcpPropose", i)
           /\ comment'.author = a
           /\ comment'.arg = <<d>>
           /\ comment'.ok
           /\ ProposalsOf(i) = {})
          => \E p \in fcp_proposal' :
                /\ fcp_proposal' = fcp_proposal \cup {p}
                /\ \A q \in fcp_proposal : q.id # p.id
                /\ p.fk_issue = i
                /\ p.disposition = d
                /\ p.fk_initiator = a
                /\ p.fcp_start = NULL
                /\ ~p.fcp_closed
                /\ p.fk_bot_tracking_comment \in DOMAIN gh_comment' \ DOMAIN gh_comment
                /\ out'[1].op = "new_comment" /\ out'[1].ok
                /\ \A r \in fcp_review_request : r.fk_proposal # p.id
                /\ fcp_review_request' = fcp_review_request \cup
                      {[fk_proposal |-> p.id, fk_reviewer |-> m, reviewed |-> (m = a)] :
                          m \in subteam_members(i)}]_vars

\* A Propose command of b has succeeded: the proposal is there, with its
\* tracking comment posted and edited.
C14_Witness ==
    /\ pc = "sweep"
    /\ comment.kind = "FcpPropose"
    /\ comment.author = "b"
    /\ comment.ok
    /\ Len(out) = 2
    /\ \A k \in 1..Len(out) : out[k].ok
    /\ \E p \in ProposalsOf(comment.issue) : p.fk_initiator = "b"

(* C16: a Propose command on an issue that has a proposal, pending, started *)
(* or closed, creates no proposal and no review request, leaves the         *)
(* proposal as it is (disposition, initiator, tracking comment, fcp_start,  *)
(* fcp_closed) and posts no status comment.                                 *)
C16_ProposeOnProposalIsNoOp ==
    [][\A i \in Issues :
          (CommandStep("FcpPropose", i) /\ ProposalsOf(i) # {})
             => /\ UNCHANGED <<fcp_proposal, fcp_review_request>>
                /\ NoRemoteWrite]_vars

\* A Propose command of a subteam member, with another disposition, has been
\* processed on an issue whose proposal has started its FCP.
C16_Witness ==
    /\ pc = "sweep"
    /\ comment.kind = "FcpPropose"
    /\ out = <<>>
    /\ \E p \in ProposalsOf(comment.issue) :
          p.fcp_start # NULL /\ <<p.disposition>> # comment.arg

(* C17: a Cancel command of a subteam member does not fail, whether its     *)
(* comment is posted, fails to be posted or is skipped; it deletes the      *)
(* proposal of the issue, with every review request and concern of it, and  *)
(* on an issue without a proposal it changes nothing.                       *)
C17_CancelDeletesProposal ==
    [][\A i \in Issues :
          (CommandStep("FcpCancel", i) /\ comment'.author \in subteam_members(i))
             => /\ comment'.ok
                /\ pc' = "sweep"
                /\ fcp_proposal' = fcp_proposal \ ProposalsOf(i)
                /\ fcp_review_request' =
                      {r \in fcp_review_request :
                          \A q \in ProposalsOf(i) : r.fk_proposal # q.id}
                /\ fcp_concern' =
                      {c \in fcp_concern : \A q \in ProposalsOf(i) : c.fk_proposal # q.id}
                /\ ProposalsOf(i) = {} => (UNCHANGED Tables /\ NoRemoteWrite)]_vars

\* A Cancel command has deleted a proposal that had a concern, and the post
\* of its comment has failed.
C17_Witness ==
    /\ pc = "sweep"
    /\ comment.kind = "FcpCancel"
    /\ comment.ok
    /\ Len(out) = 1
    /\ out[1].op = "new_comment"
    /\ ~out[1].ok
    /\ fcp_proposal = {}
    /\ fcp_review_request = {}
    /\ fcp_concern = {}
    /\ \E id \in DOMAIN issuecomment : HasLine(issuecomment[id], <<"Concerns:">>)

(* C18: in every reachable state no proposal has two concerns of the same   *)
(* name that are both unresolved.                                           *)
C18_UnresolvedNamesUnique ==
    \A c \in fcp_concern, d \in fcp_concern :
       (/\ c.fk_proposal = d.fk_proposal
        /\ c.name = d.name
        /\ c.fk_resolved_comment = NULL
        /\ d.fk_resolved_comment = NULL)
       => c = d

\* A NewConcern command of a subteam member has been processed on a proposal
\* that has an unresolved concern of that name, raised by the other member.
C18_Witness ==
    /\ pc = "sweep"
    /\ comment.kind = "NewConcern"
    /\ \E p \in ProposalsOf(comment.issue), c \in fcp_concern :
          /\ c.fk_proposal = p.id
          /\ c.name = comment.arg
          /\ c.fk_resolved_comment = NULL
          /\ c.fk_initiator # comment.author

\* No statement and no call of the last step failed for that issue.
NoFailureFor(calls, i) == \A k \in 1..Len(calls) : calls[k].issue = i => calls[k].ok

(* C11: a failure of a step of the sweep for one proposal is confined to    *)
(* that proposal.  The sweep still processes every other pending proposal:  *)
(* one whose review requests are all reviewed and whose concerns are all    *)
(* resolved, nothing failing for its issue, has its FCP started; and it     *)
(* still runs the closing pass: a proposal whose FCP started 10 days ago or *)
(* more is closed.                                                          *)
C11_FailureIsConfined ==
    [][SweepStep =>
          \A q \in fcp_proposal :
             /\ (/\ q.fcp_start = NULL
                 /\ AllReviewed(fcp_review_request, q.id)
                 /\ NoneUnresolved(fcp_concern, q.id)
                 /\ TurnCompletes(q)
                 /\ NoFailureFor(out', q.fk_issue))
                => \E p \in fcp_proposal' : p.id = q.id /\ p.fcp_start = now
             /\ (q.fcp_start # NULL /\ q.fcp_start <= now - FcpDays /\ ~q.fcp_closed)
                => \E p \in fcp_proposal' : p.id = q.id /\ p.fcp_closed]_vars

(* C15: in every reachable state a proposal exists if and only if its full  *)
(* set of review requests exists: every proposal has a review request for   *)
(* every subteam member of its issue, and every review request belongs to a *)
(* proposal.                                                                *)
C15_ReviewRequestsWithProposal ==
    /\ \A p \in fcp_proposal :
          \A m \in subteam_members(p.fk_issue) :
             \E r \in fcp_review_request : r.fk_proposal = p.id /\ r.fk_reviewer = m
    /\ \A r \in fcp_review_request : \E p \in fcp_proposal : p.id = r.fk_proposal

\* The concerns of that name on the proposals of issue i that are unresolved.
UnresolvedNamed(concerns, i, n) ==
    {c \in concerns :
        /\ \E p \in ProposalsOf(i) : c.fk_proposal = p.id
        /\ c.name = n
        /\ c.fk_resolved_comment = NULL}

(* C19: a NewConcern(n) command of a subteam member on an issue with a      *)
(* proposal inserts an unresolved concern named n whenever the proposal has *)
(* no unresolved concern named n, also when it has a resolved one of that   *)
(* name.                                                                    *)
C19_ResolvedConcernIsReopened ==
    [][\A i \in DOMAIN issue, n \in ConcernNames :
          (/\ CommandStep("NewConcern", i)
           /\ comment'.arg = n
           /\ comment'.author \in subteam_members(i)
           /\ ProposalsOf(i) # {}
           /\ UnresolvedNamed(fcp_concern, i, n) = {})
          => UnresolvedNamed(fcp_concern', i, n) # {}]_vars

(* C20: once a concern has a resolving comment, every step either deletes   *)
(* its whole proposal or leaves the concern in the table with a resolving   *)
(* comment: no command and no sweep removes the row alone or sets           *)
(* fk_resolved_comment back to null.                                        *)
C20_ResolutionIsAppendOnly ==
    [][\A c \in fcp_concern :
          c.fk_resolved_comment # NULL
          => \/ \A p \in fcp_proposal' : p.id # c.fk_proposal
             \/ \E d \in fcp_concern' :
                   /\ d.fk_proposal = c.fk_proposal
                   /\ d.name = c.name
                   /\ d.fk_initiator = c.fk_initiator
                   /\ d.fk_initiating_comment = c.fk_initiating_comment
                   /\ d.fk_resolved_comment # NULL]_vars

\* A ResolveConcern command of its initiator has been processed on a concern
\* that was resolved already: its resolving comment is the command's, later
\* than the comment that followed the one raising it.
C20_Witness ==
    /\ pc = "sweep"
    /\ comment.kind = "ResolveConcern"
    /\ \E c \in fcp_concern :
          /\ c.name = comment.arg
          /\ c.fk_initiator = comment.author
          /\ c.fk_resolved_comment = next_id - 1
          /\ c.fk_resolved_comment > c.fk_initiating_comment + 1

\* The feedback requests for user u on issue i that have no feedback comment.
OpenRequests(requests, u, i) ==
    {f \in requests : f.fk_requested = u /\ f.fk_issue = i /\ f.fk_feedback_comment = NULL}

(* C21: in every reachable state there is at most one feedback request      *)
(* without a feedback comment for each pair of requested user and issue.    *)
C21_OneOpenRequestPerUserAndIssue ==
    \A u \in githubuser, i \in DOMAIN issue :
       Cardinality(OpenRequests(rfc_feedback_request, u, i)) <= 1

\* A FeedbackRequest command of one member has been processed for a user who
\* has an open request on the issue from the other member.
C21_Witness ==
    /\ pc = "sweep"
    /\ comment.kind = "FeedbackRequest"
    /\ \E f \in OpenRequests(rfc_feedback_request, UserByLogin(comment.arg), comment.issue) :
          f.fk_initiator # comment.author

(* C22: a FeedbackRequest(u) command of a subteam member, u a user of the   *)
(* store, inserts a request without feedback comment for (u, issue)         *)
(* whenever no such open request exists, also when an earlier request for   *)
(* (u, issue) exists that has its feedback comment.                         *)
C22_AnsweredRequestIsRenewed ==
    [][\A i \in DOMAIN issue, u \in githubuser :
          (/\ CommandStep("FeedbackRequest", i)
           /\ comment'.arg = Login(u)
           /\ comment'.author \in subteam_members(i)
           /\ OpenRequests(rfc_feedback_request, u, i) = {})
          => OpenRequests(rfc_feedback_request', u, i) # {}]_vars

\* The body from_str was given, whether it has returned, and what.
ParsedBody == issuecomment[1]
Parsed == comment # NoComment
Result == Command(comment.kind, comment.arg)

\* The rows of the grammar whose invocation is fixed.
GrammarRows ==
    {<<Word_fcp \o <<" ">> \o Word_merge, Command("FcpPropose", "merge")>>,
     <<Word_fcp \o <<" ">> \o Word_close, Command("FcpPropose", "close")>>,
     <<Word_fcp \o <<" ">> \o Word_postpone, Command("FcpPropose", "postpone")>>,
     <<Word_fcp \o <<" ">> \o Word_cancel, Command("FcpCancel", <<>>)>>,
     <<Word_pr \o <<" ">> \o Word_merge, Command("FcpPropose", "merge")>>,
     <<Word_reviewed, Command("Reviewed", <<>>)>>}

\* A user name: one token.
IsToken(s) == s # <<>> /\ \A k \in 1..Len(s) : s[k] # " "

\* If the line is the mention, with or without a colon, a space and the
\* invocation of a row of the grammar, the result is the command of the row.
RowYields(line, result) ==
    \A colon \in {<<>>, <<":">>} :
       LET addressed == RFC_BOT_MENTION \o colon \o <<" ">>
           invoked == SubSeq(line, Len(addressed) + 1, Len(line))
           After(word) == SubSeq(invoked, Len(word) + 1, Len(invoked))
           Names(word) == /\ StartsWith(invoked, word)
                          /\ (After(word) = <<>> \/ Head(After(word)) = " ")
           asks == Word_feedback \o <<" ", "@">>
       IN StartsWith(line, addressed) =>
             /\ \A row \in GrammarRows : invoked = row[1] => result = row[2]
             /\ Names(Word_concern)
                => result = Command("NewConcern", Trim(After(Word_concern)))
             /\ Names(Word_resolved)
                => result = Command("ResolveConcern", Trim(After(Word_resolved)))
             /\ (StartsWith(invoked, asks) /\ IsToken(After(asks)))
                => result = Command("FeedbackRequest", After(asks))

(* C23: a body whose first line is the mention, with or without a colon,    *)
(* followed by the invocation of a row of the grammar (fcp merge, close,    *)
(* postpone, cancel; pr merge; reviewed; concern and resolved with a name;  *)
(* f? @user) parses to the command of the row; the name of concern and      *)
(* resolved is the trimmed remainder of that line, spaces included, and     *)
(* the later lines of the body do not matter.                               *)
C23_GrammarRowsParse ==
    (Parsed /\ ParsedBody # <<>>) => RowYields(ParsedBody[1], Result)

\* A body of three lines has been parsed whose first line resolves a concern
\* with a name of two words, and whose last line is another command.
C23_Witness ==
    /\ Parsed
    /\ Len(ParsedBody) = 3
    /\ ParsedBody[1] = RFC_BOT_MENTION \o <<" ">> \o Word_resolved \o <<" ", "n", " ", "b">>
    /\ ParsedBody[3] = RFC_BOT_MENTION \o <<" ">> \o Word_fcp \o <<" ">> \o Word_cancel
    /\ Result = Command("ResolveConcern", <<"n", " ", "b">>)

\* No line of the body before line k starts with the mention.
FirstMention(body, k) == \A j \in 1..(k - 1) : ~StartsWith(body[j], RFC_BOT_MENTION)

(* C24, as amended: a line of the body that is the mention, with or without *)
(* a colon, and fcp merge (or another row of the grammar, or resolved with  *)
(* a name) makes the parser yield its command wherever in the body it is,   *)
(* provided no line before it starts with the mention.                      *)
C24_CommandBelowOtherLines ==
    Parsed => \A k \in 1..Len(ParsedBody) :
                 FirstMention(ParsedBody, k) => RowYields(ParsedBody[k], Result)

\* A body has been parsed to Propose(merge) whose command is on its third
\* line, below a line of text and a line that holds the mention after a space.
C24_Witness ==
    /\ Parsed
    /\ Len(ParsedBody) = 3
    /\ ParsedBody[1] = <<"n">>
    /\ ParsedBody[2] = <<" ">> \o RFC_BOT_MENTION \o <<" ">> \o Word_fcp \o <<" ">> \o Word_close
    /\ ParsedBody[3] = RFC_BOT_MENTION \o <<":", " ">> \o Word_fcp \o <<" ">> \o Word_merge
    /\ Result = Command("FcpPropose", "merge")

(* C24, as stated: a line of the body that is the mention, with or without  *)
(* a colon, and fcp merge (or another row of the grammar, or resolved with  *)
(* a name) makes the parser yield its command, whatever the other lines of  *)
(* the body are.                                                            *)
C24_CommandAnywhereInBody ==
    Parsed => \A k \in 1..Len(ParsedBody) : RowYields(ParsedBody[k], Result)

(* C25: the result of the parser is the result for the first line of the    *)
(* body that starts with the mention, alone: the lines before and after it  *)
(* do not matter, and when that line is no command the result is the parse  *)
(* failure, whatever later lines hold; a body without such a line fails to  *)
(* parse.                                                                   *)
C25_FirstMentionLineDecides ==
    Parsed =>
       LET mentions == {k \in 1..Len(ParsedBody) : StartsWith(ParsedBody[k], RFC_BOT_MENTION)}
           first == CHOOSE k \in mentions : \A j \in mentions : k <= j
       IN IF mentions = {} THEN Result = ParseError
          ELSE Result = from_str(<<ParsedBody[first]>>)

\* A body has failed to parse whose first line starting with the mention is
\* no command, below a line of text and above a line that is a command.
C25_Witness ==
    /\ Parsed
    /\ Len(ParsedBody) = 3
    /\ ParsedBody[1] = <<"n">>
    /\ ParsedBody[2] = RFC_BOT_MENTION \o <<" ", "b">>
    /\ ParsedBody[3] = RFC_BOT_MENTION \o <<" ">> \o Word_fcp \o <<" ">> \o Word_merge
    /\ Result = ParseError

\* The tokens are an invocation listed in the grammar.
IsGrammarInvocation(tokens) ==
    /\ tokens # <<>>
    /\ \/ /\ tokens[1] = Word_fcp
          /\ Len(tokens) >= 2
          /\ tokens[2] \in {Word_merge, Word_close, Word_postpone, Word_cancel}
       \/ tokens[1] = Word_pr /\ Len(tokens) >= 2 /\ tokens[2] = Word_merge
       \/ tokens[1] \in {Word_reviewed, Word_concern, Word_resolved}
       \/ /\ tokens[1] = Word_feedback
          /\ Len(tokens) >= 2
          /\ Len(tokens[2]) >= 2
          /\ Head(tokens[2]) = "@"

(* C26: the parser yields a command only for the invocations listed in the  *)
(* grammar: when it yields one, the body has a line starting with the       *)
(* mention and the first such line, after the mention and colons, is fcp    *)
(* with merge, close, postpone or cancel, pr with merge, reviewed, concern, *)
(* resolved, or f? with @ and a user name.                                  *)
C26_OnlyGrammarRowsParse ==
    (Parsed /\ Result # ParseError) =>
       \E k \in 1..Len(ParsedBody) :
          /\ StartsWith(ParsedBody[k], RFC_BOT_MENTION)
          /\ FirstMention(ParsedBody, k)
          /\ IsGrammarInvocation(SplitWhitespace(
                TrimLeftMatches(TrimLeftMatches(ParsedBody[k], RFC_BOT_MENTION), <<":">>)))

\* The status comment of proposal q rendered from the state.
Rendered(q) ==
    format_FcpProposed(q.fk_issue, q.fk_initiator, q.disposition,
                       list_review_requests(World, q.id),
                       list_concerns_with_authors(World, q.id))

\* The orders in which a query ordered by name may return concerns.
NameOrders(rows) ==
    {o \in Orders(rows) :
        \A j \in DOMAIN o, k \in DOMAIN o :
           j < k => IndexOf(NameOrder, o[j].name) <= IndexOf(NameOrder, o[k].name)}

(* C27: the status comment of a proposal is a function of the issue, the    *)
(* initiator, the disposition, the review requests and the concerns: in     *)
(* whatever order the queries return the rows, the text is the same.  It    *)
(* has one checkbox line for each review request, in ascending order of     *)
(* login, checked if and only if the request is reviewed; a line for each   *)
(* unresolved concern with the link to its initiating comment, and a struck *)
(* line for each resolved concern with the link to its resolving comment.   *)
C27_RenderingIsAFunctionOfState ==
    \A q \in fcp_proposal :
       LET rows == {r \in fcp_review_request : r.fk_proposal = q.id}
           concerns == {c \in fcp_concern : c.fk_proposal = q.id}
           boxes == SelectSeq(Rendered(q), LAMBDA l : StartsWith(l, BoxPrefix))
           users == SelectSeq(LoginOrder, LAMBDA u : \E r \in rows : r.fk_reviewer = u)
       IN /\ \A loaded \in Orders(rows), named \in NameOrders(concerns) :
                format_FcpProposed(q.fk_issue, q.fk_initiator, q.disposition,
                                   list_review_requests_loaded(loaded), named) = Rendered(q)
          /\ Len(boxes) = Cardinality(rows)
          /\ Len(users) = Cardinality(rows)
          /\ \A k \in 1..Len(boxes) :
                \E r \in rows :
                   /\ r.fk_reviewer = users[k]
                   /\ boxes[k] = (IF r.reviewed THEN <<"*", " ", "[", "x", "]", " ", "@">>
                                  ELSE <<"*", " ", "[", " ", "]", " ", "@">>) \o Login(users[k])
          /\ \A c \in concerns :
                HasLine(Rendered(q),
                        IF c.fk_resolved_comment = NULL
                        THEN <<"*", " ">> \o c.name \o <<" ", "(">>
                             \o add_comment_url(q.fk_issue, c.fk_initiating_comment) \o <<")">>
                        ELSE <<"*", " ", "~", "~">> \o c.name \o <<"~", "~", " resolved by ">>
                             \o add_comment_url(q.fk_issue, c.fk_resolved_comment))

\* A proposal of b has a review request of a that is not reviewed and a
\* resolved concern.
C27_Witness ==
    \E q \in fcp_proposal, r \in fcp_review_request, c \in fcp_concern :
       /\ q.fk_initiator = "b"
       /\ r.fk_proposal = q.id /\ r.fk_reviewer = "a" /\ ~r.reviewed
       /\ c.fk_proposal = q.id /\ c.fk_resolved_comment # NULL

\* The line of the FCP-started notification that warns the initiator.
WarningLine(initiator) ==
    <<"psst @">> \o Login(initiator)
    \o <<", I was not able to add the final-comment-period label, please do so.">>

(* C28: whenever a sweep tries to attach the label, whether it succeeds or  *)
(* fails, the proposal of that issue has its fcp_start set by that sweep,   *)
(* and the sweep goes on to post the FCP-started notification, which has    *)
(* the warning line naming the initiator if and only if attaching the label *)
(* failed.                                                                  *)
C28_LabelFailureIsReported ==
    [][SweepStep =>
          \A k \in 1..Len(out') :
             out'[k].op = "add_label" =>
                \E p \in fcp_proposal' :
                   /\ p.fk_issue = out'[k].issue
                   /\ p.fcp_start = now
                   /\ \A q \in fcp_proposal : q.id = p.id => q.fcp_start = NULL
                   /\ k < Len(out')
                   /\ out'[k + 1].op = "new_comment"
                   /\ IsFcpStartedNotification(out'[k + 1], p)
                   /\ HasLine(out'[k + 1].body, WarningLine(p.fk_initiator)) <=> ~out'[k].ok]_vars

\* A sweep has started an FCP, failed to attach the label, and posted the
\* notification with the warning.
C28_Witness ==
    /\ comment.kind = "swept"
    /\ \E p \in fcp_proposal, k \in 1..Len(out) :
          /\ p.fcp_start = now
          /\ out[k].op = "add_label"
          /\ ~out[k].ok
          /\ k < Len(out)
          /\ out[k + 1].ok
          /\ HasLine(out[k + 1].body, WarningLine(p.fk_initiator))

\* The store's copy of the tracking comment of q is the comment on the platform.
TrackingInStep(q) ==
    /\ q.fk_bot_tracking_comment \in DOMAIN gh_comment
    /\ q.fk_bot_tracking_comment \in DOMAIN issuecomment
    /\ issuecomment[q.fk_bot_tracking_comment] = gh_comment[q.fk_bot_tracking_comment]

\* A sweep in which nothing fails: posting is enabled, every issue with a
\* proposal is open, the store's copies of the tracking comments are those of
\* the platform, every re-derivation succeeds and every remote call succeeds.
FailureFreeSweep ==
    /\ SweepStep
    /\ post_comments
    /\ \A q \in fcp_proposal :
          issue[q.fk_issue].open /\ TrackingInStep(q) /\ RederivationSucceeds(q)
    /\ \A k \in 1..Len(out') : out'[k].ok

(* C29: after a failure-free sweep, the tracking comment of every proposal  *)
(* with fcp_closed = false, those whose fcp_start is set included, is the   *)
(* rendering of its current review requests and concerns.                   *)
C29_SweepRendersEveryOpenProposal ==
    [][FailureFreeSweep =>
          \A p \in fcp_proposal' :
             ~p.fcp_closed => gh_comment'[p.fk_bot_tracking_comment] = Rendered(p)']_vars

\* With posting disabled, a Propose command of a subteam member on an open
\* issue without a proposal creates the proposal.
ProposeSurvivesDisabledPosting ==
    \A i \in Issues :
       \A a \in subteam_members(i) :
          (/\ CommandStep("FcpPropose", i)
           /\ comment'.author = a
           /\ ~post_comments
           /\ issue[i].open
           /\ ProposalsOf(i) = {})
          => \E p \in fcp_proposal' : p.fk_issue = i /\ p.fk_initiator = a

\* With posting disabled, the sweep starts the FCP of every pending proposal
\* of an open issue whose review requests are all reviewed and whose concerns
\* are all resolved.
SweepStartsWithDisabledPosting ==
    (SweepStep /\ ~post_comments) =>
       \A q \in fcp_proposal :
          (/\ q.fcp_start = NULL
           /\ issue[q.fk_issue].open
           /\ RederivationSucceeds(q)
           /\ AllReviewed(fcp_review_request, q.id)
           /\ NoneUnresolved(fcp_concern, q.id))
          => \E p \in fcp_proposal' : p.id = q.id /\ p.fcp_start = now

(* C30: with comment posting disabled by configuration a post is a no-op    *)
(* and no failure: a Propose command still creates its proposal, and the    *)
(* sweep still sets fcp_start of a proposal whose conditions are met.       *)
C30_DisabledPostingIsNoFailure ==
    [][ProposeSurvivesDisabledPosting /\ SweepStartsWithDisabledPosting]_vars

\* The concerns named n on the proposals of issue i that user a raised.
RaisedBy(concerns, i, n, a) ==
    {c \in concerns :
        /\ \E p \in ProposalsOf(i) : c.fk_proposal = p.id
        /\ c.name = n
        /\ c.fk_initiator = a}

(* C31: a ResolveConcern(n) command on issue i changes no concern but the   *)
(* one named n on the proposal of i that the command's author raised, whose *)
(* resolving comment becomes the command's comment; by another subteam      *)
(* member, or for a name without such a concern, it leaves every concern    *)
(* as it is.                                                                *)
C31_OnlyTheInitiatorResolves ==
    [][\A i \in DOMAIN issue, n \in ConcernNames :
          (CommandStep("ResolveConcern", i) /\ comment'.arg = n)
          => LET mine == IF comment'.author \in subteam_members(i)
                         THEN RaisedBy(fcp_concern, i, n, comment'.author) ELSE {}
             IN /\ mine = {} => fcp_concern' = fcp_concern
                /\ fcp_concern' =
                      (fcp_concern \ mine)
                      \cup {[c EXCEPT !.fk_resolved_comment = next_id] : c \in mine}]_vars

\* A ResolveConcern command of a subteam member has been processed for a name
\* under which only the other member has raised a concern, which is unresolved.
C31_Witness ==
    /\ pc = "sweep"
    /\ comment.kind = "ResolveConcern"
    /\ comment.author \in subteam_members(comment.issue)
    /\ RaisedBy(fcp_concern, comment.issue, comment.arg, comment.author) = {}
    /\ \E c \in fcp_concern :
          /\ \E p \in ProposalsOf(comment.issue) : c.fk_proposal = p.id
          /\ c.name = comment.arg
          /\ c.fk_resolved_comment = NULL

\* The stored tracking comment of the pending proposal q is the rendering of
\* the state.
StoredIsRendered(q) ==
    /\ q.fcp_start = NULL
    /\ q.fk_bot_tracking_comment \in DOMAIN issuecomment
    /\ issuecomment[q.fk_bot_tracking_comment] = Rendered(q)

\* The logins the sweep reads as ticked in the stored tracking comment of q.
ExtractedLogins(q) ==
    LET names == ReviewedNames(issuecomment[q.fk_bot_tracking_comment])
    IN {names[k] : k \in 1..Len(names)}

(* C32: for a pending proposal whose stored tracking comment is the         *)
(* renderer's output for the current state, whatever the reviewers and the  *)
(* concern names, the users update_proposal_review_status reads as ticked   *)
(* are the users whose review request is reviewed, and the function changes *)
(* no review request.                                                       *)
C32_RenderingReadsBackAsState ==
    \A q \in fcp_proposal :
       StoredIsRendered(q)
       => /\ ExtractedLogins(q) =
                {Login(r.fk_reviewer) : r \in {x \in fcp_review_request :
                                                  x.fk_proposal = q.id /\ x.reviewed}}
          /\ update_proposal_review_status(World, q.id) = [ok |-> TRUE, st |-> World]

\* The calls of the step that post the FCP-started notification of the
\* proposal of that id, and those that post the completion of its FCP.
StartedPosts(id) ==
    {k \in 1..Len(out') :
        /\ out'[k].op = "new_comment"
        /\ \E q \in fcp_proposal \cup fcp_proposal' :
              q.id = id /\ IsFcpStartedNotification(out'[k], q)}

CompletedPosts(id) ==
    {k \in 1..Len(out') :
        /\ out'[k].op = "new_comment"
        /\ out'[k].body = format_FcpWeekPassed
        /\ \E q \in fcp_proposal \cup fcp_proposal' : q.id = id /\ out'[k].issue = q.fk_issue}

(* C33: the FCP-started notification and the FCP-complete comment are each  *)
(* posted, successfully or not, at most once per proposal, over any         *)
(* sequence of steps one after the other.  A step attempts the notification *)
(* of a proposal at most once, only a sweep does, and only a sweep that     *)
(* takes fcp_start from unset to set; likewise the completion and           *)
(* fcp_closed; a fcp_start that is set stays set, fcp_closed stays true,    *)
(* and the id of a proposal is never given to another.                      *)
C33_NotificationsAtMostOnce ==
    [][/\ \A id \in {q.id : q \in fcp_proposal \cup fcp_proposal'} :
            /\ Cardinality(StartedPosts(id)) <= 1
            /\ StartedPosts(id) # {}
               => /\ SweepStep
                  /\ \E q \in fcp_proposal : q.id = id /\ q.fcp_start = NULL
                  /\ \E p \in fcp_proposal' : p.id = id /\ p.fcp_start # NULL
            /\ Cardinality(CompletedPosts(id)) <= 1
            /\ CompletedPosts(id) # {}
               => /\ SweepStep
                  /\ \E q \in fcp_proposal : q.id = id /\ ~q.fcp_closed
                  /\ \E p \in fcp_proposal' : p.id = id /\ p.fcp_closed
       /\ \A q \in fcp_proposal, p \in fcp_proposal' :
             p.id = q.id => /\ q.fcp_start # NULL => p.fcp_start # NULL
                            /\ q.fcp_closed => p.fcp_closed
       /\ \A q \in fcp_proposal : q.id < next_proposal
       /\ next_proposal <= next_proposal'
       /\ \A p \in fcp_proposal' :
             (\A q \in fcp_proposal : q.id # p.id)
             => p.id >= next_proposal /\ p.fcp_start = NULL /\ ~p.fcp_closed]_vars

\* A sweep has closed an FCP and failed to post its completion: the proposal
\* is closed, and no later sweep loads it.
C33_Witness ==
    /\ comment.kind = "swept"
    /\ \E p \in fcp_proposal, k \in 1..Len(out) :
          /\ p.fcp_closed
          /\ out[k].issue = p.fk_issue
          /\ out[k].body = format_FcpWeekPassed
          /\ ~out[k].ok
          /\ finished_fcps(World) = {}

\* The post of the base comment of a Propose command on issue i does not
\* succeed in the step: posting is disabled, the issue is closed, or the call
\* fails.
BaseCommentNotPosted(i) ==
    \/ ~post_comments
    \/ ~issue[i].open
    \/ out' # <<>> /\ out'[1].op = "new_comment" /\ ~out'[1].ok

(* C34: a Propose command of a subteam member on an issue without proposal  *)
(* whose initial status comment is not posted (the call fails, posting is   *)
(* disabled, or the issue is closed) fails, and inserts no proposal and no  *)
(* review request; every proposal row a step inserts has as tracking        *)
(* comment the comment that the step's first call has successfully posted.  *)
C34_NoProposalWithoutPostedComment ==
    [][/\ \A i \in DOMAIN issue :
             (/\ CommandStep("FcpPropose", i)
              /\ comment'.author \in subteam_members(i)
              /\ ProposalsOf(i) = {}
              /\ BaseCommentNotPosted(i))
             => /\ ~comment'.ok
                /\ pc' = "idle"
                /\ UNCHANGED Tables
                /\ UNCHANGED <<gh_comment, issuecomment>>
       /\ \A p \in fcp_proposal' :
             (\A q \in fcp_proposal : q.id # p.id)
             => /\ post_comments /\ issue[p.fk_issue].open
                /\ out'[1].op = "new_comment" /\ out'[1].ok
                /\ p.fk_bot_tracking_comment # NULL
                /\ p.fk_bot_tracking_comment \in DOMAIN gh_comment' \ DOMAIN gh_comment]_vars

\* A Propose command of a subteam member for an issue without proposal has
\* failed at the post of its base comment, the only call it made.
C34_Witness ==
    /\ pc = "idle"
    /\ comment.kind = "FcpPropose"
    /\ comment.author \in subteam_members(comment.issue)
    /\ ~comment.ok
    /\ Len(out) = 1 /\ out[1].op = "new_comment" /\ ~out[1].ok
    /\ fcp_proposal = {}
    /\ fcp_review_request = {}

\* The users who have a review request on the proposal of that id.
Reviewers(requests, proposal_id) ==
    {r.fk_reviewer : r \in {x \in requests : x.fk_proposal = proposal_id}}

(* C35: no step adds a review request to, or removes one from, a proposal   *)
(* that exists before and after the step, whatever the labels of the issue  *)
(* and the members of its teams have become and whatever users the tracking *)
(* comment names; review requests go only with their proposal.              *)
C35_ReviewRequestsFixedAtCreation ==
    [][\A q \in fcp_proposal :
          LET before == {r \in fcp_review_request : r.fk_proposal = q.id}
              after == {r \in fcp_review_request' : r.fk_proposal = q.id}
          IN IF \E p \in fcp_proposal' : p.id = q.id
             THEN /\ Reviewers(fcp_review_request', q.id) = Reviewers(fcp_review_request, q.id)
                  /\ Cardinality(after) = Cardinality(before)
             ELSE after = {}]_vars

\* A sweep has run over a pending proposal of an issue whose teams now have
\* the member c, who has no review request on it and whom the stored tracking
\* comment names on a ticked line, and have lost a member who has one.
C35_Witness ==
    /\ comment.kind = "swept"
    /\ comment.pending > 0
    /\ \E p \in fcp_proposal :
          /\ p.fcp_start = NULL
          /\ "c" \in subteam_members(p.fk_issue)
          /\ "c" \notin Reviewers(fcp_review_request, p.id)
          /\ Reviewers(fcp_review_request, p.id) \ subteam_members(p.fk_issue) # {}
          /\ p.fk_bot_tracking_comment \in DOMAIN issuecomment
          /\ HasLine(issuecomment[p.fk_bot_tracking_comment], StrangerLine)

(* C36: a fcp_start that is set has the same value after every step that    *)
(* leaves the proposal in the table; no Reviewed, NewConcern or             *)
(* ResolveConcern command and no edit of the tracking comment removes the   *)
(* proposal; and a sweep at least 10 days after fcp_start closes the        *)
(* proposal, whatever concerns were raised, whatever boxes were unticked    *)
(* since the FCP started.                                                   *)
C36_StartIsFinal ==
    [][\A q \in fcp_proposal :
          q.fcp_start # NULL
          => /\ \A p \in fcp_proposal' : p.id = q.id => p.fcp_start = q.fcp_start
             /\ (\/ \E i \in DOMAIN issue : \E kind \in {"Reviewed", "NewConcern", "ResolveConcern"} :
                       CommandStep(kind, i)
                 \/ UNCHANGED <<Tables, pc>>)
                => q \in fcp_proposal'
             /\ (SweepStep /\ ~q.fcp_closed /\ q.fcp_start <= now - FcpDays)
                => [q EXCEPT !.fcp_closed = TRUE] \in fcp_proposal']_vars

\* A sweep, 10 days after the FCP started, has closed a proposal that has an
\* unresolved concern and an unticked box in its stored tracking comment.
C36_Witness ==
    /\ comment.kind = "swept"
    /\ \E p \in fcp_proposal :
          /\ p.fcp_closed
          /\ p.fcp_start = now - FcpDays
          /\ \E k \in 1..Len(out) : out[k].body = format_FcpWeekPassed
          /\ \E c \in fcp_concern : c.fk_proposal = p.id /\ c.fk_resolved_comment = NULL
          /\ \E u \in githubuser :
                HasLine(issuecomment[p.fk_bot_tracking_comment], UncheckedBox \o Login(u))

\* The calls in the log that post the FCP-started notification of proposal p.
StartedNotifications(p) ==
    {k \in 1..Len(out) : out[k].op = "new_comment" /\ IsFcpStartedNotification(out[k], p)}

OneProposalPerIssue == \A i \in DOMAIN issue : Cardinality(ProposalsOf(i)) <= 1

NotifiedAtMostOnce == \A p \in fcp_proposal : Cardinality(StartedNotifications(p)) <= 1

(* C37: with two invocations of update_nags running at the same time, their *)
(* reads and writes of the store interleaved, every issue has at most one   *)
(* proposal and the FCP-started notification of a proposal is posted at     *)
(* most once.                                                               *)
C37_HoldsWithoutSerialization == OneProposalPerIssue /\ NotifiedAtMostOnce

\* The feedback requests for user u on issue i.
RequestsFor(u, i) == {f \in rfc_feedback_request : f.fk_requested = u /\ f.fk_issue = i}

====
